---- MODULE Spec2Model ----
(***************************************************************************)
(* SmartSDLC server: the in-memory store (server/storage.ts), the AI       *)
(* orchestration service and PDF processor (server/services/openai.ts) and *)
(* the HTTP handlers (server/routes.ts), as a state machine.               *)
(***************************************************************************)
EXTENDS Integers, Sequences, FiniteSets, TLC

VARIABLES
    users, documents, requirements, codeSnippets, testCases,
    documentations, chatMessages,   \* MemStorage's seven Maps
    issued,                         \* the identifiers randomUUID() has returned
    now,                            \* the clock new Date() reads
    call,                           \* the last IStorage call made directly and what it returned
    ops,                            \* number of steps SpecStore has taken
    reqs,                           \* the HTTP requests being served: each one's place in its
                                    \* handler and its locals
    served,                         \* number of HTTP requests that have arrived
    orch,                           \* one orchestration operation on its own: its arguments,
                                    \* what upstream gave, and what it returned
    chatbot,                        \* the FloatingChatbot component: its React state, its
                                    \* chat request and its chat-history query
    uploader                        \* the RequirementsModule component: uploadProgress, the
                                    \* uploads it has started and their progress timers

storeVars == <<users, documents, requirements, codeSnippets, testCases,
               documentations, chatMessages>>
vars == <<users, documents, requirements, codeSnippets, testCases,
          documentations, chatMessages, issued, now, call, ops, reqs, served, orch,
          chatbot, uploader>>

---------------------------------------------------------------------------
\* Bounds of the model.
MaxStoreSteps == 3    \* steps (direct IStorage calls, clock ticks) in one behaviour of SpecStore
MaxClock == 1         \* clock ticks
MaxRequests == 2      \* HTTP requests in one behaviour
MaxItems == 2         \* items in a classification answer given to an operation on its own
MaxLiveRequests == 1  \* HTTP requests in one behaviour of SpecLive and of SpecRead
MaxConcCalls == 2     \* direct IStorage calls in one behaviour of SpecConc
MaxSends == 2         \* chat messages sent in one behaviour of SpecChat
MaxUploads == 2       \* uploads started in one behaviour of SpecUpload

---------------------------------------------------------------------------
(* JavaScript values. Every value has the same shape, so that any two can  *)
(* be compared: t is the type tag, s a string's text, n a number's value,  *)
(* a an array's elements (or an object's field values).                    *)
JV(tag, str, num, arr) == [t |-> tag, s |-> str, n |-> num, a |-> arr]
Undefined == JV("undefined", "", 0, <<>>)
Null == JV("null", "", 0, <<>>)
Str(x) == JV("string", x, 0, <<>>)
Num(x) == JV("number", "", x, <<>>)
Arr(x) == JV("array", "", 0, x)

\* x == null || x === undefined
IsNullish(v) == v.t \in {"undefined", "null"}

\* ToBoolean(v): undefined, null, "" and 0 are falsy; arrays and objects are truthy.
Truthy(v) ==
    CASE v.t \in {"undefined", "null"} -> FALSE
      [] v.t = "string" -> v.s # ""
      [] v.t = "number" -> v.n # 0
      [] OTHER -> TRUE

\* a || b
Or(a, b) == IF Truthy(a) THEN a ELSE b

\* obj.f, undefined when obj has no property f
Prop(obj, f) == IF f \in DOMAIN obj THEN obj[f] ELSE Undefined

\* obj.f without a default
OrNullBare(obj, f) == Prop(obj, f)
\* obj.f ?? null
OrNull(obj, f) == IF IsNullish(Prop(obj, f)) THEN Null ELSE obj[f]

\* A spread in which a's own properties win
SpreadKeepingFirst(a, b) ==
    [f \in (DOMAIN a) \cup (DOMAIN b) |-> IF f \in DOMAIN a THEN a[f] ELSE b[f]]
\* { ...a, ...b }: b's own properties override a's
Spread(a, b) ==
    [f \in (DOMAIN a) \cup (DOMAIN b) |-> IF f \in DOMAIN b THEN b[f] ELSE a[f]]

---------------------------------------------------------------------------
(* A JavaScript Map: entries in insertion order. set() on an existing key  *)
(* replaces the value in place, on a new key it appends.                   *)
MapKeys(m) == {m[i].k : i \in 1..Len(m)}
MapHas(m, key) == key \in MapKeys(m)
Absent == [absent |-> TRUE]
MapGet(m, key) ==
    IF MapHas(m, key)
    THEN m[CHOOSE i \in 1..Len(m) : m[i].k = key].v
    ELSE Absent
\* A set that empties the map first
MapSetReplacing(m, key, val) == <<[k |-> key, v |-> val]>>
\* A set that stores nothing
MapSetDropped(m, key, val) == m
\* A set that moves a key it replaces to the end
MapSetMoving(m, key, val) ==
    Append(SelectSeq(m, LAMBDA e : e.k # key), [k |-> key, v |-> val])
MapSet(m, key, val) ==
    IF MapHas(m, key)
    THEN [i \in 1..Len(m) |-> IF m[i].k = key THEN [k |-> key, v |-> val] ELSE m[i]]
    ELSE Append(m, [k |-> key, v |-> val])
\* Array.from(m.values())
MapValues(m) == [i \in 1..Len(m) |-> m[i].v]
\* Array.prototype.filter with the predicate "record.f === val"
RECURSIVE FilterBy(_, _, _)
FilterBy(recs, f, val) ==
    IF recs = <<>> THEN <<>>
    ELSE IF Prop(Head(recs), f) = val
         THEN <<Head(recs)>> \o FilterBy(Tail(recs), f, val)
         ELSE FilterBy(Tail(recs), f, val)

---------------------------------------------------------------------------
(* randomUUID(): a version-4 UUID. The generator is taken never to repeat  *)
(* a value; which value it returns is immaterial, so the model hands out   *)
(* the pool's values in order.                                             *)
UUIDPool == <<"uuid-01", "uuid-02", "uuid-03", "uuid-04", "uuid-05", "uuid-06",
              "uuid-07", "uuid-08", "uuid-09", "uuid-10", "uuid-11", "uuid-12",
              "uuid-13", "uuid-14", "uuid-15", "uuid-16">>
UUIDs == {UUIDPool[i] : i \in 1..Len(UUIDPool)}
\* A generator that returns the same value every time
randomUUIDRepeating == UUIDPool[1]
randomUUID == UUIDPool[Cardinality(issued) + 1]

DEFAULT_USER_ID == "default-user"

\* MemStorage.constructor
defaultUser ==
    [id |-> Str("default-user"), username |-> Str("developer"),
     password |-> Str("password"), email |-> Str("dev@company.com"),
     createdAt |-> Num(0)]

---------------------------------------------------------------------------
(* The records the create methods build from their argument, the fresh id  *)
(* and the current time.                                                   *)
NewUser(ins, id, t) == Spread(ins, [id |-> Str(id), createdAt |-> Num(t)])

NewDocument(ins, id, t) ==
    Spread(ins, [id |-> Str(id), uploadedAt |-> Num(t),
                 userId |-> OrNull(ins, "userId")])

NewRequirement(ins, id, t) ==
    Spread(ins, [id |-> Str(id), createdAt |-> Num(t),
                 userId |-> OrNull(ins, "userId"),
                 documentId |-> OrNull(ins, "documentId"),
                 userStory |-> OrNull(ins, "userStory")])

NewCodeSnippet(ins, id, t) ==
    Spread(ins, [id |-> Str(id), createdAt |-> Num(t),
                 userId |-> OrNull(ins, "userId"),
                 description |-> OrNull(ins, "description"),
                 generatedCode |-> OrNull(ins, "generatedCode")])

NewTestCase(ins, id, t) ==
    Spread(ins, [id |-> Str(id), createdAt |-> Num(t),
                 userId |-> OrNull(ins, "userId"),
                 codeSnippetId |-> OrNull(ins, "codeSnippetId"),
                 coverage |-> OrNull(ins, "coverage"),
                 totalTests |-> OrNull(ins, "totalTests")])

NewDocumentation(ins, id, t) ==
    Spread(ins, [id |-> Str(id), createdAt |-> Num(t),
                 userId |-> OrNull(ins, "userId"),
                 codeSnippetId |-> OrNull(ins, "codeSnippetId"),
                 overview |-> OrNull(ins, "overview"),
                 features |-> OrNull(ins, "features"),
                 methods |-> OrNull(ins, "methods"),
                 example |-> OrNull(ins, "example")])

NewChatMessage(ins, id, t) ==
    Spread(ins, [id |-> Str(id), createdAt |-> Num(t),
                 userId |-> OrNull(ins, "userId")])

\* The reads.
getUser(id) == MapGet(users, id)
getUserByUsername(name) ==
    LET hits == FilterBy(MapValues(users), "username", name)
    IN  IF hits = <<>> THEN Absent ELSE Head(hits)
getDocument(id) == MapGet(documents, id)
getCodeSnippet(id) == MapGet(codeSnippets, id)
getDocumentsByUserId(uid) == FilterBy(MapValues(documents), "userId", Str(uid))
getRequirementsByDocumentId(did) == FilterBy(MapValues(requirements), "documentId", Str(did))
getRequirementsByUserId(uid) == FilterBy(MapValues(requirements), "userId", Str(uid))
getCodeSnippetsByUserId(uid) == FilterBy(MapValues(codeSnippets), "userId", Str(uid))
getTestCasesByUserId(uid) == FilterBy(MapValues(testCases), "userId", Str(uid))
getTestCasesByCodeSnippetId(sid) == FilterBy(MapValues(testCases), "codeSnippetId", Str(sid))
getDocumentationsByUserId(uid) == FilterBy(MapValues(documentations), "userId", Str(uid))
getDocumentationsByCodeSnippetId(sid) ==
    FilterBy(MapValues(documentations), "codeSnippetId", Str(sid))
getChatMessagesByUserId(uid) == FilterBy(MapValues(chatMessages), "userId", Str(uid))

\* updateCodeSnippet: the map after the call, and what the call returns.
UpdatedCodeSnippetsUpsert(id, updates) ==
    MapSet(codeSnippets, id,
           IF MapHas(codeSnippets, id)
           THEN Spread(MapGet(codeSnippets, id), updates)
           ELSE updates)
\* An update that returns the merged record without storing it
UpdatedCodeSnippetsLost(id, updates) == codeSnippets
UpdatedCodeSnippets(id, updates) ==
    IF MapHas(codeSnippets, id)
    THEN MapSet(codeSnippets, id, Spread(MapGet(codeSnippets, id), updates))
    ELSE codeSnippets
UpdateCodeSnippetResult(id, updates) ==
    IF MapHas(codeSnippets, id)
    THEN Spread(MapGet(codeSnippets, id), updates)
    ELSE Absent

---------------------------------------------------------------------------
(* Direct use of the IStorage interface: a caller makes one call at a      *)
(* time; call records the method, its key argument and what it returned.   *)
NoCall == [op |-> "none", key |-> "", ret |-> Absent, list |-> <<>>]
Returned(method, key, rec) == [op |-> method, key |-> key, ret |-> rec, list |-> <<>>]
ReturnedList(method, key, recs) == [op |-> method, key |-> key, ret |-> Absent, list |-> recs]

\* Arguments the caller draws from.
UserInputs ==
    {[username |-> Str("developer"), password |-> Str("pw"), email |-> Str("d@x")],
     [username |-> Str("alice"), password |-> Str("pw"), email |-> Str("a@x")]}
DocumentInputs ==
    {[userId |-> Str(DEFAULT_USER_ID), filename |-> Str("a.pdf"), content |-> Str("text")],
     [filename |-> Str("b.pdf"), content |-> Str("")]}
RequirementInputs ==
    {[documentId |-> Str("uuid-01"), userId |-> Str(DEFAULT_USER_ID), text |-> Str("t"),
      phase |-> Str("Design"), confidence |-> Num(85), userStory |-> Str("As a user")],
     [text |-> Str("t"), phase |-> Str("Testing"), confidence |-> Num(0),
      userStory |-> Undefined]}
CodeSnippetInputs ==
    {[userId |-> Str(DEFAULT_USER_ID), title |-> Str("Generated js Code"),
      description |-> Str("d"), language |-> Str("js"), code |-> Str("d"),
      generatedCode |-> Str("g"), type |-> Str("generated")],
     [title |-> Str("Original"), language |-> Str("python"), code |-> Str("c"),
      type |-> Str("original")]}
TestCaseInputs ==
    {[userId |-> Str(DEFAULT_USER_ID), framework |-> Str("pytest"), testCode |-> Str("t"),
      coverage |-> Num(95), totalTests |-> Num(8)],
     [codeSnippetId |-> Str("uuid-01"), framework |-> Str("unittest"),
      testCode |-> Str(""), coverage |-> Num(0)]}
DocumentationInputs ==
    {[userId |-> Str(DEFAULT_USER_ID), style |-> Str("technical"), overview |-> Str("o"),
      features |-> Arr(<<Str("f")>>), methods |-> Arr(<<>>), example |-> Str("")],
     [codeSnippetId |-> Str("uuid-01"), style |-> Str("api")]}
ChatMessageInputs ==
    {[userId |-> Str(DEFAULT_USER_ID), message |-> Str("hi"), response |-> Str("hello")],
     [message |-> Str("hi"), response |-> Str("")]}
SnippetUpdates ==
    {[generatedCode |-> Str("fixed"), type |-> Str("fixed")],
     [id |-> Str("uuid-16"), userId |-> Null, createdAt |-> Num(7)],
     [description |-> Undefined]}
IdArgs == issued \cup {DEFAULT_USER_ID, "no-such-id"}
OwnerArgs == {DEFAULT_USER_ID, "uuid-01", "no-such-id"}

CanCall == ops < MaxStoreSteps
CanMutate == CanCall /\ Cardinality(issued) < Len(UUIDPool)

\* Time passes.
Tick ==
    /\ now < MaxClock
    /\ now' = now + 1
    /\ UNCHANGED <<storeVars, issued>>

TickStore ==
    /\ CanCall
    /\ Tick
    /\ ops' = ops + 1
    /\ UNCHANGED <<call, reqs, served, orch, chatbot, uploader>>

CallCreateUser(ins) ==
    /\ CanMutate
    /\ LET id == randomUUID
           user == NewUser(ins, id, now)
       IN  /\ users' = MapSet(users, id, user)
           /\ issued' = issued \cup {id}
           /\ call' = Returned("createUser", id, user)
    /\ ops' = ops + 1
    /\ UNCHANGED <<documents, requirements, codeSnippets, testCases, documentations,
                   chatMessages, now, reqs, served, orch, chatbot, uploader>>

CallCreateDocument(ins) ==
    /\ CanMutate
    /\ LET id == randomUUID
           document == NewDocument(ins, id, now)
       IN  /\ documents' = MapSet(documents, id, document)
           /\ issued' = issued \cup {id}
           /\ call' = Returned("createDocument", id, document)
    /\ ops' = ops + 1
    /\ UNCHANGED <<users, requirements, codeSnippets, testCases, documentations,
                   chatMessages, now, reqs, served, orch, chatbot, uploader>>

CallCreateRequirement(ins) ==
    /\ CanMutate
    /\ LET id == randomUUID
           requirement == NewRequirement(ins, id, now)
       IN  /\ requirements' = MapSet(requirements, id, requirement)
           /\ issued' = issued \cup {id}
           /\ call' = Returned("createRequirement", id, requirement)
    /\ ops' = ops + 1
    /\ UNCHANGED <<users, documents, codeSnippets, testCases, documentations,
                   chatMessages, now, reqs, served, orch, chatbot, uploader>>

CallCreateCodeSnippet(ins) ==
    /\ CanMutate
    /\ LET id == randomUUID
           snippet == NewCodeSnippet(ins, id, now)
       IN  /\ codeSnippets' = MapSet(codeSnippets, id, snippet)
           /\ issued' = issued \cup {id}
           /\ call' = Returned("createCodeSnippet", id, snippet)
    /\ ops' = ops + 1
    /\ UNCHANGED <<users, documents, requirements, testCases, documentations,
                   chatMessages, now, reqs, served, orch, chatbot, uploader>>

CallCreateTestCase(ins) ==
    /\ CanMutate
    /\ LET id == randomUUID
           testCase == NewTestCase(ins, id, now)
       IN  /\ testCases' = MapSet(testCases, id, testCase)
           /\ issued' = issued \cup {id}
           /\ call' = Returned("createTestCase", id, testCase)
    /\ ops' = ops + 1
    /\ UNCHANGED <<users, documents, requirements, codeSnippets, documentations,
                   chatMessages, now, reqs, served, orch, chatbot, uploader>>

CallCreateDocumentation(ins) ==
    /\ CanMutate
    /\ LET id == randomUUID
           documentation == NewDocumentation(ins, id, now)
       IN  /\ documentations' = MapSet(documentations, id, documentation)
           /\ issued' = issued \cup {id}
           /\ call' = Returned("createDocumentation", id, documentation)
    /\ ops' = ops + 1
    /\ UNCHANGED <<users, documents, requirements, codeSnippets, testCases,
                   chatMessages, now, reqs, served, orch, chatbot, uploader>>

CallCreateChatMessage(ins) ==
    /\ CanMutate
    /\ LET id == randomUUID
           message == NewChatMessage(ins, id, now)
       IN  /\ chatMessages' = MapSet(chatMessages, id, message)
           /\ issued' = issued \cup {id}
           /\ call' = Returned("createChatMessage", id, message)
    /\ ops' = ops + 1
    /\ UNCHANGED <<users, documents, requirements, codeSnippets, testCases,
                   documentations, now, reqs, served, orch, chatbot, uploader>>

CallUpdateCodeSnippet(id, updates) ==
    /\ CanMutate
    /\ codeSnippets' = UpdatedCodeSnippets(id, updates)
    /\ call' = Returned("updateCodeSnippet", id, UpdateCodeSnippetResult(id, updates))
    /\ ops' = ops + 1
    /\ UNCHANGED <<users, documents, requirements, testCases, documentations,
                   chatMessages, issued, now, reqs, served, orch, chatbot, uploader>>

\* A read by identifier.
CallGet(method, id) ==
    /\ CanCall
    /\ ops' = ops + 1
    /\ call' = Returned(method, id,
                        CASE method = "getUser" -> getUser(id)
                          [] method = "getDocument" -> getDocument(id)
                          [] method = "getCodeSnippet" -> getCodeSnippet(id))
    /\ UNCHANGED <<storeVars, issued, now, reqs, served, orch, chatbot, uploader>>

\* A read by owner or by parent.
CallList(method, id) ==
    /\ CanCall
    /\ ops' = ops + 1
    /\ call' = ReturnedList(method, id,
          CASE method = "getDocumentsByUserId" -> getDocumentsByUserId(id)
            [] method = "getRequirementsByDocumentId" -> getRequirementsByDocumentId(id)
            [] method = "getRequirementsByUserId" -> getRequirementsByUserId(id)
            [] method = "getCodeSnippetsByUserId" -> getCodeSnippetsByUserId(id)
            [] method = "getTestCasesByUserId" -> getTestCasesByUserId(id)
            [] method = "getTestCasesByCodeSnippetId" -> getTestCasesByCodeSnippetId(id)
            [] method = "getDocumentationsByUserId" -> getDocumentationsByUserId(id)
            [] method = "getDocumentationsByCodeSnippetId" ->
                   getDocumentationsByCodeSnippetId(id)
            [] method = "getChatMessagesByUserId" -> getChatMessagesByUserId(id))
    /\ UNCHANGED <<storeVars, issued, now, reqs, served, orch, chatbot, uploader>>

CallGetUserByUsername(name) ==
    /\ CanCall
    /\ ops' = ops + 1
    /\ call' = Returned("getUserByUsername", name.s, getUserByUsername(name))
    /\ UNCHANGED <<storeVars, issued, now, reqs, served, orch, chatbot, uploader>>

GetMethods == {"getUser", "getDocument", "getCodeSnippet"}
ListMethods ==
    {"getDocumentsByUserId", "getRequirementsByDocumentId", "getRequirementsByUserId",
     "getCodeSnippetsByUserId", "getTestCasesByUserId", "getTestCasesByCodeSnippetId",
     "getDocumentationsByUserId", "getDocumentationsByCodeSnippetId",
     "getChatMessagesByUserId"}

\* export const storage = new MemStorage()
StoreInit ==
    /\ users = <<[k |-> "default-user", v |-> defaultUser]>>
    /\ documents = <<>>
    /\ requirements = <<>>
    /\ codeSnippets = <<>>
    /\ testCases = <<>>
    /\ documentations = <<>>
    /\ chatMessages = <<>>
    /\ issued = {}
    /\ now = 0

\* FloatingChatbot: the greeting useState puts first in messages, and the
\* apology onError appends.
Greeting == [message |-> Str("Hello! I'm your AI assistant"), isBot |-> TRUE]
Apology == [message |-> Str("Sorry, I encountered an error"), isBot |-> TRUE]

\* The FloatingChatbot component after its first render: closed, the greeting
\* shown, no chat request made, the chat-history query disabled and without data.
\*   posts: the chat requests sendMessageMutation has made that have not settled
\*   get:   the fetch of the chat-history query, "idle" when none is in flight
\*   stale: the query has been invalidated and not refetched since
ChatbotInit ==
    [isOpen |-> FALSE,
     messages |-> <<Greeting>>,
     isPending |-> FALSE,
     posts |-> <<>>,
     chatHistory |-> Undefined,
     get |-> [at |-> "idle", data |-> <<>>],
     stale |-> FALSE,
     sends |-> 0]

\* The RequirementsModule component after its first render: no progress, no
\* upload started. uploads[i] is "pending", "success" or "error"; timers[i]
\* says whether the interval upload i started has not been cleared.
UploaderInit == [uploadProgress |-> 0, uploads |-> <<>>, timers |-> <<>>]

NoOrch == [req |-> <<>>, outcome |-> <<>>, result |-> <<>>, done |-> TRUE]

InitStore ==
    /\ StoreInit
    /\ call = NoCall
    /\ ops = 0
    /\ reqs = <<>>
    /\ served = 0
    /\ chatbot = ChatbotInit
    /\ uploader = UploaderInit
    /\ orch = NoOrch

NextStore ==
    \/ TickStore
    \/ \E ins \in UserInputs : CallCreateUser(ins)
    \/ \E ins \in DocumentInputs : CallCreateDocument(ins)
    \/ \E ins \in RequirementInputs : CallCreateRequirement(ins)
    \/ \E ins \in CodeSnippetInputs : CallCreateCodeSnippet(ins)
    \/ \E ins \in TestCaseInputs : CallCreateTestCase(ins)
    \/ \E ins \in DocumentationInputs : CallCreateDocumentation(ins)
    \/ \E ins \in ChatMessageInputs : CallCreateChatMessage(ins)
    \/ \E id \in IdArgs, u \in SnippetUpdates : CallUpdateCodeSnippet(id, u)
    \/ \E m \in GetMethods, id \in IdArgs : CallGet(m, id)
    \/ \E m \in ListMethods, id \in OwnerArgs : CallList(m, id)
    \/ \E name \in {Str("developer"), Str("alice"), Str("bob")} : CallGetUserByUsername(name)

SpecStore == InitStore /\ [][NextStore]_vars

---------------------------------------------------------------------------
(* String conversions of JavaScript values.                                *)
Digits == <<"0", "1", "2", "3", "4", "5", "6", "7", "8", "9">>
RECURSIVE NumberToString(_)
NumberToString(n) ==
    IF n < 10 THEN Digits[n + 1]
    ELSE NumberToString(n \div 10) \o Digits[(n % 10) + 1]

\* String(v); an array converts to its elements joined by ",", in which
\* null and undefined elements convert to "".
RECURSIVE ToStr(_)
RECURSIVE Join(_)
Join(elems) ==
    IF elems = <<>> THEN ""
    ELSE LET h == IF IsNullish(Head(elems)) THEN "" ELSE ToStr(Head(elems))
         IN  IF Len(elems) = 1 THEN h ELSE h \o "," \o Join(Tail(elems))
ToStr(v) ==
    CASE v.t = "string" -> v.s
      [] v.t = "number" -> NumberToString(v.n)
      [] v.t = "undefined" -> "undefined"
      [] v.t = "null" -> "null"
      [] v.t = "array" -> Join(v.a)
      [] OTHER -> "[object Object]"

\* An object of the model's answer: its field values in the order of the
\* prompt's schema.
Obj(fields) == JV("object", "", 0, fields)
\* item.<field i>: undefined on a primitive
Field(item, i) == IF item.t = "object" THEN item.a[i] ELSE Undefined

---------------------------------------------------------------------------
(* PDFProcessor. A buffer is modelled by its length                        *)
(* and its first bytes.                                                    *)
TenMiB == 10 * 1024 * 1024

\* Buffer.toString(): UTF-8 decoding of the bytes
ByteToChar(b) ==
    CASE b = 37 -> "%" [] b = 80 -> "P" [] b = 68 -> "D" [] b = 70 -> "F"
      [] b = 45 -> "-" [] b = 75 -> "K" [] OTHER -> "?"
RECURSIVE BytesToString(_)
BytesToString(bytes) ==
    IF bytes = <<>> THEN "" ELSE ByteToChar(Head(bytes)) \o BytesToString(Tail(bytes))
\* buffer.slice(0, n)
Slice(bytes, n) == SubSeq(bytes, 1, IF Len(bytes) < n THEN Len(bytes) ELSE n)

\* A validation that accepts every buffer
validatePDFAlways(buffer) == TRUE
validatePDF(buffer) == BytesToString(Slice(buffer.head, 4)) = "%PDF"

getFileSize(buffer) == buffer.length

isFileSizeValid(buffer) == getFileSize(buffer) <= 10 * 1024 * 1024

\* multer's limits.fileSize
MulterFileSizeLimit == 10 * 1024 * 1024
\* multer's fileFilter
fileFilter(file) == file.mimetype = "application/pdf"

\* text.substring(0, 500) + '...'. A text is named by what it holds, and
\* TextLength gives its length.
TextLength(text) ==
    CASE text = "" -> 0
      [] text = "The system shall log in users." -> 30
      [] text = "<a text of 600 characters>" -> 600
      [] text = "<the first 500 characters of a text of 600 characters>" -> 500
Substring500(text) ==
    IF TextLength(text) <= 500 THEN text
    ELSE "<the first 500 characters of a text of 600 characters>"
\* A preview that cuts nothing
PreviewWhole(text) == text \o "..."
Preview(text) == Substring500(text) \o "..."

---------------------------------------------------------------------------
(* OpenAIService (server/services/openai.ts). What the upstream call gave: *)
(* kind "reject" (the call threw), "unparseable" (a content JSON.parse     *)
(* rejects), "empty" (no content: parsed as "{}"), "json" with the parsed  *)
(* object obj, or, for the chat, "text" with the content in obj.content.   *)
(* An operation returns Ok(value) or throws Fail(message).                 *)
Ok(v) == [ok |-> TRUE, value |-> v, error |-> ""]
Fail(msg) == [ok |-> FALSE, value |-> <<>>, error |-> msg]
NoResult == [ok |-> FALSE, value |-> <<>>, error |-> "(none)"]

\* The object JSON.parse(content || "{}") returns, when it returns
Parsed(outcome) == IF outcome.kind = "json" THEN outcome.obj ELSE <<>>
\* Whether the upstream call or JSON.parse threw, and the message thrown
Threw(outcome) == outcome.kind \in {"reject", "unparseable"}
CauseMessage(outcome) ==
    IF outcome.kind = "reject" THEN "429 rate limit exceeded"
    ELSE "Unexpected token < in JSON at position 0"

PhaseLabels == {"Requirements", "Design", "Development", "Testing", "Deployment"}
ZeroStatistics == [l \in PhaseLabels |-> 0]

\* statistics.hasOwnProperty(req.phase): the argument is converted to a property key
hasOwnProperty(statistics, key) == ToStr(key) \in DOMAIN statistics

\* The forEach of classifyRequirements: reading .phase of a null or undefined
\* item throws a TypeError.
RECURSIVE Tally(_, _)
Tally(items, statistics) ==
    IF items = <<>> THEN statistics
    ELSE LET phase == Field(Head(items), 2)
         IN  Tally(Tail(items),
                   IF hasOwnProperty(statistics, phase)
                   THEN [statistics EXCEPT ![ToStr(phase)] = @ + 1]
                   ELSE statistics)
TallyThrows(items) == \E i \in 1..Len(items) : IsNullish(items[i])

classifyRequirements(text, outcome) ==
    IF Threw(outcome)
    THEN Fail("Requirements classification failed: " \o CauseMessage(outcome))
    ELSE LET list == Prop(Parsed(outcome), "requirements")
         IN  IF IsNullish(list)
             THEN Ok([requirements |-> Arr(<<>>), statistics |-> ZeroStatistics])
             ELSE IF list.t # "array"
             THEN Fail("Requirements classification failed: "
                       \o "result.requirements?.forEach is not a function")
             ELSE IF TallyThrows(list.a)
             THEN Fail("Requirements classification failed: "
                       \o "Cannot read properties of null (reading 'phase')")
             ELSE Ok([requirements |-> Or(list, Arr(<<>>)),
                      statistics |-> Tally(list.a, ZeroStatistics)])

\* generateCode without its defaults
generateCodeBare(description, language, framework, outcome) ==
    IF Threw(outcome)
    THEN Fail("Code generation failed: " \o CauseMessage(outcome))
    ELSE Ok([code |-> Prop(Parsed(outcome), "code"),
             suggestions |-> Prop(Parsed(outcome), "suggestions")])
generateCode(description, language, framework, outcome) ==
    IF Threw(outcome)
    THEN Fail("Code generation failed: " \o CauseMessage(outcome))
    ELSE Ok([code |-> Or(Prop(Parsed(outcome), "code"), Str("")),
             suggestions |-> Or(Prop(Parsed(outcome), "suggestions"), Arr(<<>>))])

\* fixBugs defaulting fixedCode to the empty string rather than to the code
fixBugsNoDefault(code, language, outcome) ==
    IF Threw(outcome)
    THEN Fail("Bug fixing failed: " \o CauseMessage(outcome))
    ELSE Ok([fixedCode |-> Or(Prop(Parsed(outcome), "fixedCode"), Str("")),
             issues |-> Or(Prop(Parsed(outcome), "issues"), Arr(<<>>)),
             optimizations |-> Or(Prop(Parsed(outcome), "optimizations"), Arr(<<>>))])
fixBugs(code, language, outcome) ==
    IF Threw(outcome)
    THEN Fail("Bug fixing failed: " \o CauseMessage(outcome))
    ELSE Ok([fixedCode |-> Or(Prop(Parsed(outcome), "fixedCode"), code),
             issues |-> Or(Prop(Parsed(outcome), "issues"), Arr(<<>>)),
             optimizations |-> Or(Prop(Parsed(outcome), "optimizations"), Arr(<<>>))])

\* generateTestCases computing the total from the two counts
generateTestCasesSummed(code, framework, inputType, outcome) ==
    IF Threw(outcome)
    THEN Fail("Test generation failed: " \o CauseMessage(outcome))
    ELSE LET positive == Or(Prop(Parsed(outcome), "positiveTests"), Num(0))
             negative == Or(Prop(Parsed(outcome), "negativeTests"), Num(0))
         IN  Ok([testCode |-> Or(Prop(Parsed(outcome), "testCode"), Str("")),
                 coverage |-> Or(Prop(Parsed(outcome), "coverage"), Num(0)),
                 totalTests |-> Num(positive.n + negative.n),
                 positiveTests |-> positive,
                 negativeTests |-> negative])
generateTestCases(code, framework, inputType, outcome) ==
    IF Threw(outcome)
    THEN Fail("Test generation failed: " \o CauseMessage(outcome))
    ELSE Ok([testCode |-> Or(Prop(Parsed(outcome), "testCode"), Str("")),
             coverage |-> Or(Prop(Parsed(outcome), "coverage"), Num(0)),
             totalTests |-> Or(Prop(Parsed(outcome), "totalTests"), Num(0)),
             positiveTests |-> Or(Prop(Parsed(outcome), "positiveTests"), Num(0)),
             negativeTests |-> Or(Prop(Parsed(outcome), "negativeTests"), Num(0))])

\* summarizeCode without its defaults
summarizeCodeBare(code, style, outcome) ==
    IF Threw(outcome)
    THEN Fail("Code summarization failed: " \o CauseMessage(outcome))
    ELSE Ok([overview |-> Prop(Parsed(outcome), "overview"),
             features |-> Prop(Parsed(outcome), "features"),
             methods |-> Prop(Parsed(outcome), "methods"),
             example |-> Prop(Parsed(outcome), "example")])
summarizeCode(code, style, outcome) ==
    IF Threw(outcome)
    THEN Fail("Code summarization failed: " \o CauseMessage(outcome))
    ELSE Ok([overview |-> Or(Prop(Parsed(outcome), "overview"), Str("")),
             features |-> Or(Prop(Parsed(outcome), "features"), Arr(<<>>)),
             methods |-> Or(Prop(Parsed(outcome), "methods"), Arr(<<>>)),
             example |-> Or(Prop(Parsed(outcome), "example"), Str(""))])

\* chatResponse reads the content as free text; there is no JSON.parse.
chatResponse(message, outcome) ==
    IF outcome.kind = "reject"
    THEN Fail("Chat response failed: " \o CauseMessage(outcome))
    ELSE Ok([response |->
                Or(IF outcome.kind = "text" THEN outcome.obj.content ELSE Null,
                   Str("I'm sorry, I couldn't process your request. Please try again."))])

---------------------------------------------------------------------------
(* The HTTP handlers (server/routes.ts). A request runs its handler from   *)
(* one await to the next in one step; pc names the await it is suspended   *)
(* at. log lists, in order, what the request has done so far.              *)
Requests == 1..MaxRequests

NoFile == [present |-> FALSE, mimetype |-> "", buffer |-> [head |-> <<>>, length |-> 0],
           filename |-> Undefined]
IdleReq ==
    [pc |-> "idle", ep |-> "", file |-> NoFile, body |-> <<>>,
     text |-> NoResult,        \* what extractText returned
     prompt |-> <<>>,          \* what the orchestration operation put into its prompt
     upstream |-> <<>>,        \* what the upstream model call gave
     document |-> Absent,      \* upload: const document
     result |-> NoResult,      \* what the orchestration operation returned
     pending |-> Absent,       \* the record of the create being awaited
     saved |-> <<>>,           \* upload: const requirements
     status |-> 0, resp |-> <<>>,
     log |-> <<>>]

PostEndpoints == {"generate", "fix", "tests", "summarize", "chat"}
GetEndpoints == {"documents", "code-snippets", "chat-history"}

\* The field a handler requires, and its message when the field is missing.
RequiredField(ep) ==
    CASE ep = "generate" -> "description"
      [] ep = "chat" -> "message"
      [] OTHER -> "code"
RequiredMessage(ep) ==
    CASE ep = "generate" -> "Description is required"
      [] ep = "fix" -> "Code is required"
      [] ep = "tests" -> "Code or requirements are required"
      [] ep = "summarize" -> "Code is required"
      [] ep = "chat" -> "Message is required"

\* res.status(status).json({ error: message }), and res.json(body)
ErrorResponse(req, status, message) ==
    [req EXCEPT !.pc = "done", !.status = status, !.resp = [error |-> message],
                !.log = Append(@, "respond")]
JsonResponse(req, body) ==
    [req EXCEPT !.pc = "done", !.status = 200, !.resp = body, !.log = Append(@, "respond")]

\* The application's error-handling middleware, which answers when multer
\* passes an error on (a refused file type, a file over the size limit).
UploadRejectedStatus == 400
errorMiddleware(req, message) ==
    [req EXCEPT !.pc = "done", !.status = UploadRejectedStatus,
                !.resp = [error |-> message], !.log = <<"rejected", "respond">>]

\* this.<kind>.set(id, record) of a create method, with the identifier taken
SetIn(m, kind, which, id, rec) == IF kind = which THEN MapSet(m, id, rec) ELSE m
StoreCreate(kind, id, rec) ==
    /\ users' = SetIn(users, kind, "users", id, rec)
    /\ documents' = SetIn(documents, kind, "documents", id, rec)
    /\ requirements' = SetIn(requirements, kind, "requirements", id, rec)
    /\ codeSnippets' = SetIn(codeSnippets, kind, "codeSnippets", id, rec)
    /\ testCases' = SetIn(testCases, kind, "testCases", id, rec)
    /\ documentations' = SetIn(documentations, kind, "documentations", id, rec)
    /\ chatMessages' = SetIn(chatMessages, kind, "chatMessages", id, rec)
    /\ issued' = issued \cup {id}

\* The upload route with neither size limit
UploadStartUnlimited(req, file) ==
    LET r0 == [req EXCEPT !.ep = "upload", !.file = file]
        r1 == [r0 EXCEPT !.log = <<"validate">>]
    IN  IF file.present /\ ~fileFilter(file)
        THEN errorMiddleware(r0, "Only PDF files are allowed")
        ELSE IF ~file.present
        THEN ErrorResponse(r1, 400, "No PDF file uploaded")
        ELSE IF ~validatePDF(file.buffer)
        THEN ErrorResponse(r1, 400, "Invalid PDF file")
        ELSE [r1 EXCEPT !.pc = "awaitExtract", !.log = Append(@, "extract")]
\* upload.single('pdf') and the upload handler as far as its first await
UploadStart(req, file) ==
    LET r0 == [req EXCEPT !.ep = "upload", !.file = file]
        r1 == [r0 EXCEPT !.log = <<"validate">>]
    IN  IF file.present /\ ~fileFilter(file)
        THEN errorMiddleware(r0, "Only PDF files are allowed")
        ELSE IF file.present /\ file.buffer.length > MulterFileSizeLimit
        THEN errorMiddleware(r0, "File too large")
        ELSE IF ~file.present
        THEN ErrorResponse(r1, 400, "No PDF file uploaded")
        ELSE IF ~validatePDF(file.buffer)
        THEN ErrorResponse(r1, 400, "Invalid PDF file")
        ELSE IF ~isFileSizeValid(file.buffer)
        THEN ErrorResponse(r1, 400, "File size exceeds 10MB limit")
        ELSE [r1 EXCEPT !.pc = "awaitExtract", !.log = Append(@, "extract")]

\* A parameter with a default value: the default applies to undefined only.
DefaultParam(v, d) == IF v = Undefined THEN d ELSE v
\* What an orchestration operation interpolates into its prompt, as strings
PromptOf(ep, body) ==
    CASE ep = "generate" ->
             [language |-> ToStr(DefaultParam(Prop(body, "language"), Str("python"))),
              framework |-> IF Truthy(Prop(body, "framework"))
                            THEN ToStr(body.framework) ELSE "",
              input |-> ToStr(Prop(body, "description"))]
      [] ep = "fix" ->
             [language |-> ToStr(DefaultParam(Prop(body, "language"), Str("python"))),
              input |-> ToStr(Prop(body, "code"))]
      [] ep = "tests" ->
             [framework |-> ToStr(DefaultParam(Prop(body, "framework"), Str("unittest"))),
              inputLabel |-> IF DefaultParam(Prop(body, "inputType"), Str("code")) = Str("code")
                             THEN "code" ELSE "requirements",
              input |-> ToStr(Prop(body, "code"))]
      [] ep = "summarize" ->
             [style |-> ToStr(DefaultParam(Prop(body, "style"), Str("technical"))),
              input |-> ToStr(Prop(body, "code"))]
      [] ep = "chat" -> [input |-> ToStr(Prop(body, "message"))]
ClassifyPrompt(text) == [input |-> ToStr(text)]

\* A JSON handler without its required-field check
PostStartUnvalidated(req, ep, body) ==
    [req EXCEPT !.ep = ep, !.body = body, !.pc = "awaitAI", !.log = <<"validate", "ai">>]
\* A JSON handler as far as its first await
PostStart(req, ep, body) ==
    LET r1 == [req EXCEPT !.ep = ep, !.body = body, !.log = <<"validate">>]
    IN  IF ~Truthy(Prop(body, RequiredField(ep)))
        THEN ErrorResponse(r1, 400, RequiredMessage(ep))
        ELSE [r1 EXCEPT !.pc = "awaitAI", !.prompt = PromptOf(ep, body),
                        !.log = Append(@, "ai")]

\* The orchestration operation a handler calls, applied to what upstream gave
Orchestrate(req, outcome) ==
    CASE req.ep = "upload" -> classifyRequirements(req.text.value.text, outcome)
      [] req.ep = "generate" ->
             generateCode(req.body.description, Prop(req.body, "language"),
                          Prop(req.body, "framework"), outcome)
      [] req.ep = "fix" -> fixBugs(req.body.code, Prop(req.body, "language"), outcome)
      [] req.ep = "tests" ->
             generateTestCases(req.body.code, Prop(req.body, "framework"),
                               Prop(req.body, "inputType"), outcome)
      [] req.ep = "summarize" -> summarizeCode(req.body.code, Prop(req.body, "style"), outcome)
      [] req.ep = "chat" -> chatResponse(req.body.message, outcome)

\* The store kind a JSON handler writes, and the argument of its create call
KindOf(ep) ==
    CASE ep \in {"generate", "fix"} -> "codeSnippets"
      [] ep = "tests" -> "testCases"
      [] ep = "summarize" -> "documentations"
      [] ep = "chat" -> "chatMessages"
InsertOf(req) ==
    LET body == req.body
        v == req.result.value
    IN  CASE req.ep = "generate" ->
               [userId |-> Str(DEFAULT_USER_ID),
                title |-> Str("Generated " \o ToStr(Prop(body, "language")) \o " Code"),
                description |-> body.description,
                language |-> Or(Prop(body, "language"), Str("python")),
                code |-> body.description,
                generatedCode |-> v.code,
                type |-> Str("generated")]
          [] req.ep = "fix" ->
               [userId |-> Str(DEFAULT_USER_ID),
                title |-> Str("Fixed " \o ToStr(Prop(body, "language")) \o " Code"),
                description |-> Str("Bug-fixed and optimized code"),
                language |-> Or(Prop(body, "language"), Str("python")),
                code |-> body.code,
                generatedCode |-> v.fixedCode,
                type |-> Str("fixed")]
          [] req.ep = "tests" ->
               [userId |-> Str(DEFAULT_USER_ID),
                framework |-> Or(Prop(body, "framework"), Str("unittest")),
                testCode |-> v.testCode,
                coverage |-> v.coverage,
                totalTests |-> v.totalTests]
          [] req.ep = "summarize" ->
               [userId |-> Str(DEFAULT_USER_ID),
                style |-> Or(Prop(body, "style"), Str("technical")),
                overview |-> v.overview,
                features |-> v.features,
                methods |-> v.methods,
                example |-> v.example]
          [] req.ep = "chat" ->
               [userId |-> Str(DEFAULT_USER_ID),
                message |-> body.message,
                response |-> v.response]
RecordOf(req, id, t) ==
    CASE req.ep \in {"generate", "fix"} -> NewCodeSnippet(InsertOf(req), id, t)
      [] req.ep = "tests" -> NewTestCase(InsertOf(req), id, t)
      [] req.ep = "summarize" -> NewDocumentation(InsertOf(req), id, t)
      [] req.ep = "chat" -> NewChatMessage(InsertOf(req), id, t)

\* The body of a JSON handler's success response
BodyOf(req) ==
    LET v == req.result.value
    IN  CASE req.ep = "generate" ->
               [codeSnippet |-> req.pending, suggestions |-> v.suggestions]
          [] req.ep = "fix" ->
               [codeSnippet |-> req.pending, issues |-> v.issues,
                optimizations |-> v.optimizations]
          [] req.ep = "tests" ->
               [testCase |-> req.pending,
                statistics |-> [total |-> v.totalTests, positive |-> v.positiveTests,
                                negative |-> v.negativeTests]]
          [] req.ep = "summarize" -> [documentation |-> req.pending]
          [] req.ep = "chat" -> [chatMessage |-> req.pending, response |-> v.response]

\* An upload handler that takes the documentId from the Document stored last
RequirementInsertShared(req, item) ==
    [documentId |-> documents[Len(documents)].v.id,
     userId |-> Str(DEFAULT_USER_ID),
     text |-> Field(item, 1),
     phase |-> Field(item, 2),
     confidence |-> Field(item, 3),
     userStory |-> Field(item, 4)]
\* The upload handler's requirement for one classification item
RequirementInsert(req, item) ==
    [documentId |-> req.document.id,
     userId |-> Str(DEFAULT_USER_ID),
     text |-> Field(item, 1),
     phase |-> Field(item, 2),
     confidence |-> Field(item, 3),
     userStory |-> Field(item, 4)]
UploadBody(req, saved) ==
    [document |-> req.document,
     requirements |-> saved,
     statistics |-> req.result.value.statistics,
     extractedText |-> Str(Preview(req.text.value.text.s))]
Items(req) == req.result.value.requirements.a

---------------------------------------------------------------------------
(* What the clients send and what the collaborators answer.                *)
PdfHead == <<37, 80, 68, 70, 45>>      \* "%PDF-"
ZipHead == <<80, 75, 3, 4, 20>>        \* "PK.."
Buffers ==
    {[head |-> PdfHead, length |-> 2048],
     [head |-> PdfHead, length |-> TenMiB],
     [head |-> PdfHead, length |-> TenMiB + 1],
     [head |-> ZipHead, length |-> 2048],
     [head |-> ZipHead, length |-> TenMiB + 1],
     [head |-> <<37, 80, 68>>, length |-> 3],
     [head |-> <<>>, length |-> 0]}
\* multer's memoryStorage sets no filename on the file
Files ==
    {NoFile} \cup
    {[present |-> TRUE, mimetype |-> m, buffer |-> b, filename |-> Undefined] :
        m \in {"application/pdf", "text/plain"}, b \in Buffers}

Bodies(ep) ==
    CASE ep = "generate" ->
             {<<>>, [description |-> Str("")],
              [description |-> Str("reverse a string")],
              [description |-> Str("reverse a string"), language |-> Null],
              [description |-> Str("reverse a string"), language |-> Str("js"),
               framework |-> Str("express")]}
      [] ep = "fix" ->
             {[language |-> Str("js")], [code |-> Str("")],
              [code |-> Str("retrun 1")],
              [code |-> Str("retrun 1"), language |-> Str("js")]}
      [] ep = "tests" ->
             {<<>>, [code |-> Str(""), framework |-> Str("pytest")],
              [code |-> Str("def add(a,b): return a+b")],
              [code |-> Str("def add(a,b): return a+b"), framework |-> Str("pytest"),
               inputType |-> Str("requirements")]}
      [] ep = "summarize" ->
             {<<>>, [code |-> Str("")], [code |-> Str("x = 1")],
              [code |-> Str("x = 1"), style |-> Str("api")]}
      [] ep = "chat" ->
             {<<>>, [message |-> Str("")], [message |-> Str("what is SDLC?")]}

Rejected == [kind |-> "reject", obj |-> <<>>]
Unparseable == [kind |-> "unparseable", obj |-> <<>>]
EmptyContent == [kind |-> "empty", obj |-> <<>>]
Json(o) == [kind |-> "json", obj |-> o]
Text(c) == [kind |-> "text", obj |-> [content |-> c]]

\* Classification items: text, phase, confidence, userStory
Item(phase) == Obj(<<Str("The system shall log in users."), phase, Num(85), Str("As a user")>>)
\* The statistics the model itself reports: Requirements, Design, Development,
\* Testing, Deployment
ModelStatistics == Obj(<<Num(7), Num(7), Num(7), Num(7), Num(7)>>)

Outcomes(ep) ==
    CASE ep = "upload" ->
             {Rejected, Unparseable, EmptyContent,
              Json([requirements |-> Arr(<<>>), statistics |-> ModelStatistics]),
              Json([requirements |-> Arr(<<Item(Str("Design"))>>),
                    statistics |-> ModelStatistics]),
              Json([requirements |-> Arr(<<Item(Str("Design")), Item(Str("Testing"))>>)]),
              Json([requirements |-> Arr(<<Item(Str("Maintenance"))>>)]),
              Json([requirements |-> Arr(<<Item(Arr(<<Str("Design")>>))>>)]),
              Json([requirements |-> Arr(<<Null>>)]),
              Json([requirements |-> Str("none")])}
      [] ep = "generate" ->
             {Rejected, Unparseable, EmptyContent,
              Json([code |-> Str("s[::-1]"), suggestions |-> Arr(<<Str("add tests")>>)]),
              Json([code |-> Str("s[::-1]")]),
              Json([code |-> Str(""), suggestions |-> Arr(<<>>)]),
              Json([code |-> Num(5), suggestions |-> Str("none")])}
      [] ep = "fix" ->
             {Rejected, Unparseable, EmptyContent,
              Json([fixedCode |-> Str("return 1"), issues |-> Arr(<<Str("typo")>>),
                    optimizations |-> Arr(<<>>)]),
              Json([fixedCode |-> Str(""), issues |-> Arr(<<>>)]),
              Json([fixedCode |-> Null]),
              Json([issues |-> Arr(<<Str("typo")>>)])}
      [] ep = "tests" ->
             {Rejected, Unparseable, EmptyContent,
              Json([testCode |-> Str("assert add(1,2) == 3"), coverage |-> Num(95),
                    totalTests |-> Num(3), positiveTests |-> Num(2),
                    negativeTests |-> Num(1)]),
              Json([testCode |-> Str("assert add(1,2) == 3"), coverage |-> Num(95),
                    totalTests |-> Num(3), positiveTests |-> Num(2),
                    negativeTests |-> Num(2)]),
              Json([testCode |-> Str("assert add(1,2) == 3"), totalTests |-> Num(3)]),
              Json([positiveTests |-> Num(2), negativeTests |-> Num(1)])}
      [] ep = "summarize" ->
             {Rejected, Unparseable, EmptyContent,
              Json([overview |-> Str("assigns x"), features |-> Arr(<<Str("f")>>),
                    methods |-> Arr(<<Obj(<<Str("m()"), Str("does m")>>)>>),
                    example |-> Str("x")]),
              Json([overview |-> Str("assigns x")])}
      [] ep = "chat" ->
             {Rejected, EmptyContent, Text(Str("SDLC is a process."))}

ExtractResults ==
    {Fail("PDF processing failed: Invalid PDF structure"),
     Ok([text |-> Str("The system shall log in users."), pages |-> 1]),
     Ok([text |-> Str("<a text of 600 characters>"), pages |-> 2])}

---------------------------------------------------------------------------
(* The steps of a request.                                                 *)
Idle(r) == r \in DOMAIN reqs /\ reqs[r].pc = "idle"
At(r, pc) == r \in DOMAIN reqs /\ reqs[r].pc = pc
InFlight == {r \in DOMAIN reqs : reqs[r].pc # "done"}

\* A request arrives: Express hands it to its route. Requests are served one
\* at a time, and a request that has been answered is forgotten when the next
\* one arrives.
CanArrive == served < MaxRequests /\ InFlight = {}
Admit(req) == reqs' = <<req>> /\ served' = served + 1

ArriveUpload(file) ==
    /\ CanArrive
    /\ Admit(UploadStart(IdleReq, file))
    /\ UNCHANGED <<storeVars, issued, now, call, ops, orch, chatbot, uploader>>

ArrivePost(ep, body) ==
    /\ CanArrive
    /\ Admit(PostStart(IdleReq, ep, body))
    /\ UNCHANGED <<storeVars, issued, now, call, ops, orch, chatbot, uploader>>

\* GET /api/documents, /api/code-snippets, /api/chat-history: the list is read
\* when the storage method is called; the response follows the await.
ListOf(ep) ==
    CASE ep = "documents" -> getDocumentsByUserId(DEFAULT_USER_ID)
      [] ep = "code-snippets" -> getCodeSnippetsByUserId(DEFAULT_USER_ID)
      [] ep = "chat-history" -> getChatMessagesByUserId(DEFAULT_USER_ID)
ArriveGet(ep) ==
    /\ CanArrive
    /\ Admit([IdleReq EXCEPT !.ep = ep, !.pc = "awaitList",
                              !.saved = ListOf(ep), !.log = <<"read">>])
    /\ UNCHANGED <<storeVars, issued, now, call, ops, orch, chatbot, uploader>>
RespondList(r) ==
    /\ At(r, "awaitList")
    /\ reqs' = [reqs EXCEPT ![r] = JsonResponse(@, @.saved)]
    /\ UNCHANGED <<storeVars, issued, now, call, ops, served, orch, chatbot, uploader>>

\* pdfProcessor.extractText settles.
ExtractDone(r, res) ==
    /\ At(r, "awaitExtract")
    /\ reqs' = [reqs EXCEPT ![r].text = res, ![r].pc = "afterExtract",
                            ![r].log = Append(@, IF res.ok THEN "extract_ok"
                                                 ELSE "extract_fail")]
    /\ UNCHANGED <<storeVars, issued, now, call, ops, served, orch, chatbot, uploader>>

\* An upload handler without a catch: it ends without answering
AfterExtractSilent(r) ==
    /\ At(r, "afterExtract")
    /\ reqs' = [reqs EXCEPT ![r].pc = "done"]
    /\ UNCHANGED <<storeVars, issued, now, call, ops, served, orch, chatbot, uploader>>
\* The upload handler resumes after extractText: its catch answers 500, or it
\* calls storage.createDocument.
AfterExtract(r) ==
    /\ At(r, "afterExtract")
    /\ IF ~reqs[r].text.ok
       THEN /\ reqs' = [reqs EXCEPT ![r] = ErrorResponse(@, 500, @.text.error)]
            /\ UNCHANGED <<storeVars, issued>>
       ELSE LET id == randomUUID
                document == NewDocument(
                    [userId |-> Str(DEFAULT_USER_ID),
                     filename |-> Or(reqs[r].file.filename, Str("uploaded.pdf")),
                     content |-> reqs[r].text.value.text], id, now)
            IN  /\ StoreCreate("documents", id, document)
                /\ reqs' = [reqs EXCEPT ![r].document = document,
                                        ![r].pc = "awaitCreateDocument",
                                        ![r].log = Append(@, "create:documents")]
    /\ UNCHANGED <<now, call, ops, served, orch, chatbot, uploader>>

\* The upload handler resumes after createDocument and calls classifyRequirements.
CallClassify(r) ==
    /\ At(r, "awaitCreateDocument")
    /\ reqs' = [reqs EXCEPT ![r].pc = "awaitAI",
                            ![r].prompt = ClassifyPrompt(reqs[r].text.value.text),
                            ![r].log = Append(@, "ai")]
    /\ UNCHANGED <<storeVars, issued, now, call, ops, served, orch, chatbot, uploader>>

\* The upstream call settles and the orchestration operation returns or throws.
AIDone(r) ==
    /\ At(r, "awaitAI")
    /\ \E outcome \in Outcomes(reqs[r].ep) :
         LET res == Orchestrate(reqs[r], outcome)
         IN  reqs' = [reqs EXCEPT ![r].upstream = outcome,
                                  ![r].result = res, ![r].pc = "afterAI",
                                  ![r].log = Append(@, IF res.ok THEN "ai_ok" ELSE "ai_fail")]
    /\ UNCHANGED <<storeVars, issued, now, call, ops, served, orch, chatbot, uploader>>

\* A handler whose catch deletes the request's Document before answering
AfterAIRollsBack(r) ==
    /\ At(r, "afterAI")
    /\ ~reqs[r].result.ok
    /\ documents' = IF reqs[r].ep = "upload"
                    THEN SelectSeq(documents, LAMBDA e : e.k # reqs[r].document.id.s)
                    ELSE documents
    /\ reqs' = [reqs EXCEPT ![r] = ErrorResponse(@, 500, @.result.error)]
    /\ UNCHANGED <<users, requirements, codeSnippets, testCases, documentations,
                   chatMessages, issued, now, call, ops, served, orch, chatbot, uploader>>
\* A handler that writes a record whatever the orchestration call did
AfterAIPersistsAnyway(r) ==
    /\ At(r, "afterAI")
    /\ LET id == randomUUID
           rec == NewChatMessage([userId |-> Str(DEFAULT_USER_ID), message |-> Str(""),
                                  response |-> Str("")], id, now)
       IN  /\ StoreCreate("chatMessages", id, rec)
           /\ reqs' = [reqs EXCEPT ![r] = ErrorResponse(
                           [@ EXCEPT !.log = Append(@, "create:chatMessages")], 500, "")]
    /\ UNCHANGED <<now, call, ops, served, orch, chatbot, uploader>>
\* The handler resumes after the orchestration call: its catch answers 500, or
\* it calls the create method (the upload handler for its first item, if any).
AfterAI(r) ==
    /\ At(r, "afterAI")
    /\ LET req == reqs[r]
           id == randomUUID
       IN  IF ~req.result.ok
           THEN /\ reqs' = [reqs EXCEPT ![r] = ErrorResponse(@, 500, @.result.error)]
                /\ UNCHANGED <<storeVars, issued>>
           ELSE IF req.ep = "upload" /\ Items(req) = <<>>
           THEN /\ reqs' = [reqs EXCEPT ![r] = JsonResponse(@, UploadBody(@, <<>>))]
                /\ UNCHANGED <<storeVars, issued>>
           ELSE IF req.ep = "upload"
           THEN LET rec == NewRequirement(RequirementInsert(req, Items(req)[1]), id, now)
                IN  /\ StoreCreate("requirements", id, rec)
                    /\ reqs' = [reqs EXCEPT ![r].pending = rec,
                                            ![r].pc = "awaitCreateRequirement",
                                            ![r].log = Append(@, "create:requirements")]
           ELSE LET rec == RecordOf(req, id, now)
                IN  /\ StoreCreate(KindOf(req.ep), id, rec)
                    /\ reqs' = [reqs EXCEPT ![r].pending = rec,
                                            ![r].pc = "awaitCreate",
                                            ![r].log = Append(@, "create:" \o KindOf(req.ep))]
    /\ UNCHANGED <<now, call, ops, served, orch, chatbot, uploader>>

\* The upload handler resumes after createRequirement: it pushes the record and
\* creates the next item's, or answers.
NextRequirement(r) ==
    /\ At(r, "awaitCreateRequirement")
    /\ LET req == reqs[r]
           saved == Append(req.saved, req.pending)
           id == randomUUID
       IN  IF Len(saved) = Len(Items(req))
           THEN /\ reqs' = [reqs EXCEPT ![r] =
                               JsonResponse([@ EXCEPT !.saved = saved], UploadBody(@, saved))]
                /\ UNCHANGED <<storeVars, issued>>
           ELSE LET rec == NewRequirement(
                               RequirementInsert(req, Items(req)[Len(saved) + 1]), id, now)
                IN  /\ StoreCreate("requirements", id, rec)
                    /\ reqs' = [reqs EXCEPT ![r].saved = saved, ![r].pending = rec,
                                            ![r].log = Append(@, "create:requirements")]
    /\ UNCHANGED <<now, call, ops, served, orch, chatbot, uploader>>

\* A JSON handler resumes after its create call and answers.
Respond(r) ==
    /\ At(r, "awaitCreate")
    /\ reqs' = [reqs EXCEPT ![r] = JsonResponse(@, BodyOf(@))]
    /\ UNCHANGED <<storeVars, issued, now, call, ops, served, orch, chatbot, uploader>>

Init ==
    /\ StoreInit
    /\ call = NoCall
    /\ ops = 0
    /\ reqs = <<>>
    /\ served = 0
    /\ chatbot = ChatbotInit
    /\ uploader = UploaderInit
    /\ orch = NoOrch

Next ==
    \/ \E file \in Files : ArriveUpload(file)
    \/ \E ep \in PostEndpoints : \E body \in Bodies(ep) : ArrivePost(ep, body)
    \/ \E ep \in GetEndpoints : ArriveGet(ep)
    \/ \E r \in Requests : RespondList(r)
    \/ \E r \in Requests : \E res \in ExtractResults : ExtractDone(r, res)
    \/ \E r \in Requests : AfterExtract(r)
    \/ \E r \in Requests : CallClassify(r)
    \/ \E r \in Requests : AIDone(r)
    \/ \E r \in Requests : AfterAI(r)
    \/ \E r \in Requests : NextRequirement(r)
    \/ \E r \in Requests : Respond(r)

Spec == Init /\ [][Next]_vars

---------------------------------------------------------------------------
(* An orchestration operation on its own: Init draws the operation, its    *)
(* arguments and what upstream gives; the one step applies the operation.  *)
BoundedSeq(S, n) == UNION {[1..k -> S] : k \in 0..n}
ItemPool ==
    {Item(Str("Requirements")), Item(Str("Design")), Item(Str("Testing")),
     Item(Str("Maintenance")), Item(Undefined), Item(Arr(<<Str("Design")>>)),
     Str("a bare sentence"), Null}
ClassifyOutcomes ==
    {Rejected, Unparseable, EmptyContent, Json([requirements |-> Str("none")]),
     Json([requirements |-> Null, statistics |-> ModelStatistics])}
    \cup {Json([requirements |-> Arr(items)]) : items \in BoundedSeq(ItemPool, MaxItems)}
    \cup {Json([requirements |-> Arr(items), statistics |-> ModelStatistics]) :
             items \in BoundedSeq(ItemPool, MaxItems)}
\* An answer that has every field of the prompt's schema, with the type asked for
FullAnswer(ep) ==
    CASE ep = "generate" ->
             [code |-> Str("s[::-1]"), suggestions |-> Arr(<<Str("add tests")>>)]
      [] ep = "fix" ->
             [fixedCode |-> Str("return 1"), issues |-> Arr(<<Str("typo")>>),
              optimizations |-> Arr(<<Str("inline")>>)]
      [] ep = "tests" ->
             [testCode |-> Str("assert add(1,2) == 3"), coverage |-> Num(95),
              totalTests |-> Num(3), positiveTests |-> Num(2), negativeTests |-> Num(1)]
      [] ep = "summarize" ->
             [overview |-> Str("assigns x"), features |-> Arr(<<Str("f")>>),
              methods |-> Arr(<<Obj(<<Str("m()"), Str("does m")>>)>>),
              example |-> Str("x")]
\* The answers that lack some of the fields
PartialAnswers(ep) ==
    {Json([f \in fields |-> FullAnswer(ep)[f]]) : fields \in SUBSET DOMAIN FullAnswer(ep)}
\* The answers with one field of another type than asked for
WrongValues == {Num(5), Num(0), Str("none"), Str(""), Null, Arr(<<>>)}
WrongTypedAnswers(ep) ==
    UNION {{Json([FullAnswer(ep) EXCEPT ![f] = v]) :
               v \in {w \in WrongValues : w.t # FullAnswer(ep)[f].t}} :
           f \in DOMAIN FullAnswer(ep)}
OrchOutcomes(ep) ==
    IF ep = "upload" THEN ClassifyOutcomes
    ELSE IF ep = "chat" THEN Outcomes(ep)
    ELSE Outcomes(ep) \cup PartialAnswers(ep) \cup WrongTypedAnswers(ep)
\* The request whose handler would make the call
OrchRequest(ep) ==
    IF ep = "upload"
    THEN {[IdleReq EXCEPT !.ep = ep, !.text = t] : t \in {x \in ExtractResults : x.ok}}
    ELSE {[IdleReq EXCEPT !.ep = ep, !.body = b] :
             b \in {x \in Bodies(ep) : Truthy(Prop(x, RequiredField(ep)))}}

InitOrch ==
    /\ StoreInit
    /\ call = NoCall
    /\ ops = 0
    /\ reqs = <<>>
    /\ served = 0
    /\ chatbot = ChatbotInit
    /\ uploader = UploaderInit
    /\ \E ep \in PostEndpoints \cup {"upload"} :
         \E req \in OrchRequest(ep), outcome \in OrchOutcomes(ep) :
            orch = [req |-> req, outcome |-> outcome, result |-> NoResult, done |-> FALSE]

RunOrch ==
    /\ ~orch.done
    /\ orch' = [orch EXCEPT !.result = Orchestrate(orch.req, orch.outcome), !.done = TRUE]
    /\ UNCHANGED <<storeVars, issued, now, call, ops, reqs, served, chatbot, uploader>>

NextOrch == RunOrch

SpecOrch == InitOrch /\ [][NextOrch]_vars

---------------------------------------------------------------------------
(* Requests served concurrently: a request arrives while others are        *)
(* suspended at an await and every request is kept.  A client of the       *)
(* storage interface may call updateCodeSnippet between any two steps and  *)
(* createUser while no request is in flight.                               *)
ConcFile ==
    [present |-> TRUE, mimetype |-> "application/pdf",
     buffer |-> [head |-> PdfHead, length |-> 2048], filename |-> Undefined]
ConcEndpoints == {"generate"}
ConcBody(ep) == [description |-> Str("reverse a string")]
ConcExtractResults == {Ok([text |-> Str("The system shall log in users."), pages |-> 1])}
ConcOutcomes(ep) ==
    CASE ep = "upload" ->
             {Rejected,
              Json([requirements |-> Arr(<<Item(Str("Design")), Item(Str("Testing"))>>)])}
      [] ep = "generate" -> {Json([code |-> Str("s[::-1]")])}

ConcUser == [username |-> Str("alice"), password |-> Str("pw"), email |-> Str("a@x")]
ConcUpdates == {[generatedCode |-> Str("fixed"), type |-> Str("fixed")],
                [description |-> Str("edited")]}

\* No request is in flight.
Quiet == \A r \in DOMAIN reqs : reqs[r].pc = "done"

ArriveConc(req) ==
    /\ Len(reqs) < MaxRequests
    /\ reqs' = Append(reqs, req)
    /\ served' = served + 1
    /\ UNCHANGED <<storeVars, issued, now, call, ops, orch, chatbot, uploader>>
ArriveUploadConc == ArriveConc(UploadStart(IdleReq, ConcFile))
ArrivePostConc(ep) == ArriveConc(PostStart(IdleReq, ep, ConcBody(ep)))

\* The upstream call of a concurrently served request settles.
AIDoneConc(r) ==
    /\ At(r, "awaitAI")
    /\ \E outcome \in ConcOutcomes(reqs[r].ep) :
         LET res == Orchestrate(reqs[r], outcome)
         IN  reqs' = [reqs EXCEPT ![r].upstream = outcome,
                                  ![r].result = res, ![r].pc = "afterAI",
                                  ![r].log = Append(@, IF res.ok THEN "ai_ok" ELSE "ai_fail")]
    /\ UNCHANGED <<storeVars, issued, now, call, ops, served, orch, chatbot, uploader>>

NextConc ==
    \/ ArriveUploadConc
    \/ \E ep \in ConcEndpoints : ArrivePostConc(ep)
    \/ \E r \in Requests : \E res \in ConcExtractResults : ExtractDone(r, res)
    \/ \E r \in Requests : AfterExtract(r)
    \/ \E r \in Requests : CallClassify(r)
    \/ \E r \in Requests : AIDoneConc(r)
    \/ \E r \in Requests : AfterAI(r)
    \/ \E r \in Requests : NextRequirement(r)
    \/ \E r \in Requests : Respond(r)
    \/ ops < MaxConcCalls /\ Quiet /\ CallCreateUser(ConcUser)
    \/ \E id \in MapKeys(codeSnippets), u \in ConcUpdates :
          ops < MaxConcCalls /\ CallUpdateCodeSnippet(id, u)

SpecConc == Init /\ [][NextConc]_vars

---------------------------------------------------------------------------
(* Reads by owner: a client of the storage interface creates records,      *)
(* updates code snippets and lists by owner, and the three GET endpoints   *)
(* are requested in between.                                               *)
ByUserMethods ==
    {"getDocumentsByUserId", "getRequirementsByUserId", "getCodeSnippetsByUserId",
     "getTestCasesByUserId", "getDocumentationsByUserId", "getChatMessagesByUserId"}
ReadOwners == {DEFAULT_USER_ID, "no-such-id"}
NextRead ==
    \/ \E ins \in DocumentInputs : CallCreateDocument(ins)
    \/ \E ins \in RequirementInputs : CallCreateRequirement(ins)
    \/ \E ins \in CodeSnippetInputs : CallCreateCodeSnippet(ins)
    \/ \E ins \in TestCaseInputs : CallCreateTestCase(ins)
    \/ \E ins \in DocumentationInputs : CallCreateDocumentation(ins)
    \/ \E ins \in ChatMessageInputs : CallCreateChatMessage(ins)
    \/ \E id \in MapKeys(codeSnippets), u \in SnippetUpdates : CallUpdateCodeSnippet(id, u)
    \/ \E m \in ByUserMethods, uid \in ReadOwners : CallList(m, uid)
    \/ \E ep \in GetEndpoints : served < MaxLiveRequests /\ ArriveGet(ep)
    \/ \E r \in Requests : RespondList(r)

SpecRead == InitStore /\ [][NextRead]_vars

---------------------------------------------------------------------------
(* Properties of the orchestration operations on their own (SpecOrch)      *)

ClassifyReturned == orch.done /\ orch.req.ep = "upload" /\ orch.result.ok
ReturnedItems == orch.result.value.requirements.a
CarryingLabel(items, l) == {i \in 1..Len(items) : Field(items[i], 2) = Str(l)}
ConvertingToLabel(items, l) == {i \in 1..Len(items) : ToStr(Field(items[i], 2)) = l}

\* C1: whenever classifyRequirements returns, the statistics it returns give,
\* for each of the five phase labels, the number of returned requirement items
\* whose phase is that label; the counts are the operation's own and are not
\* the statistics field of the model's answer.
C1_StatisticsCountItems ==
    ClassifyReturned =>
        \A l \in PhaseLabels :
            orch.result.value.statistics[l] = Cardinality(CarryingLabel(ReturnedItems, l))

\* C1, as the code has it: an item is counted under the label its phase
\* converts to as a property key, so a phase that is the one-element array
\* ["Design"] is counted under Design although the item's phase is not the
\* string "Design".
C1_StatisticsCountKeys ==
    ClassifyReturned =>
        \A l \in PhaseLabels :
            orch.result.value.statistics[l] = Cardinality(ConvertingToLabel(ReturnedItems, l))

\* C1: a returned classification whose item has the phase ["Design"] and whose
\* statistics count one Design item
C1_ArrayPhaseCounted ==
    /\ ClassifyReturned
    /\ \E i \in 1..Len(ReturnedItems) :
          Field(ReturnedItems[i], 2) = Arr(<<Str("Design")>>)
    /\ CarryingLabel(ReturnedItems, "Design") = {}
    /\ orch.result.value.statistics["Design"] >= 1

---------------------------------------------------------------------------
(* Properties of the store used directly (SpecStore)                       *)

\* C2: right after createUser, createDocument or createCodeSnippet returns a
\* record, the matching read by the returned identifier (getUser, getDocument,
\* getCodeSnippet) returns a record equal to the one returned.
C2_CreateThenGet ==
    /\ call.op = "createUser" => getUser(call.ret.id.s) = call.ret
    /\ call.op = "createDocument" => getDocument(call.ret.id.s) = call.ret
    /\ call.op = "createCodeSnippet" => getCodeSnippet(call.ret.id.s) = call.ret

\* C2: a code snippet has just been created into a store that already holds
\* another one, with an absent optional field stored as null
C2_Witness ==
    /\ call.op = "createCodeSnippet"
    /\ Len(codeSnippets) = 2
    /\ call.ret.generatedCode = Null
    /\ getCodeSnippet(call.ret.id.s) = call.ret

\* C3: a call of updateCodeSnippet with an identifier that is not in the code
\* snippet map returns undefined and leaves every map of the store unchanged.
C3_UpdateMissing ==
    [][(ops' = ops + 1 /\ call'.op = "updateCodeSnippet"
            /\ ~MapHas(codeSnippets, call'.key))
       => (call'.ret = Absent /\ UNCHANGED storeVars)]_vars

\* C3: updateCodeSnippet has just returned undefined for an identifier that is
\* not in a non-empty code snippet map
C3_Witness ==
    /\ call.op = "updateCodeSnippet"
    /\ call.ret = Absent
    /\ Len(codeSnippets) > 0
    /\ ~MapHas(codeSnippets, call.key)

---------------------------------------------------------------------------
(* Properties of the HTTP handlers (Spec)                                  *)

Has(log, entry) == \E i \in 1..Len(log) : log[i] = entry
CreateEntries ==
    {"create:documents", "create:requirements", "create:codeSnippets",
     "create:testCases", "create:documentations", "create:chatMessages"}
Creates(log) == \E i \in 1..Len(log) : log[i] \in CreateEntries
\* log[i] comes after an earlier entry e
After(log, i, e) == \E j \in 1..(i - 1) : log[j] = e
Answered(req, lo, hi) ==
    req.pc = "done" /\ req.status \in lo..hi /\ DOMAIN req.resp = {"error"}
\* The step on which a request arrives
Arrives == served' = served + 1
Succeeded(req, ep) == req.ep = ep /\ req.pc = "done" /\ req.status = 200

StartsWithSignature(file) ==
    Len(file.buffer.head) >= 4 /\ SubSeq(file.buffer.head, 1, 4) = <<37, 80, 68, 70>>
NotPdfUpload(req) == req.ep = "upload" /\ req.file.present /\ ~StartsWithSignature(req.file)

\* C4: an upload whose buffer does not start with the bytes '%PDF' is answered
\* with a 4xx status and an error body as soon as it arrives; extraction and
\* the AI call are never started for it, it creates no record, and the step
\* that answers it leaves the store unchanged.
C4_NotPdfRejected ==
    /\ [](\A r \in DOMAIN reqs :
            NotPdfUpload(reqs[r]) =>
                /\ Answered(reqs[r], 400, 499)
                /\ ~Has(reqs[r].log, "extract")
                /\ ~Has(reqs[r].log, "ai")
                /\ ~Creates(reqs[r].log))
    /\ [][(Arrives /\ NotPdfUpload(reqs'[1])) => UNCHANGED <<storeVars, issued>>]_vars

\* C4: an upload with the PDF media type and a ZIP signature has been answered
\* 400 by the handler, after an earlier request stored a document
C4_Witness ==
    /\ \E r \in DOMAIN reqs :
          /\ NotPdfUpload(reqs[r])
          /\ reqs[r].file.mimetype = "application/pdf"
          /\ reqs[r].file.buffer.length <= TenMiB
          /\ reqs[r].status = 400
          /\ reqs[r].resp = [error |-> "Invalid PDF file"]
    /\ Len(documents) = 1

OversizeUpload(req) ==
    req.ep = "upload" /\ req.file.present /\ req.file.buffer.length > 10 * 1024 * 1024

ExpectedFixedCode(req) ==
    LET given == Prop(Parsed(req.upstream), "fixedCode")
    IN  IF Truthy(given) THEN given ELSE req.body.code
FixReturned(req) == req.ep = "fix" /\ req.result.ok /\ req.pc \in {"afterAI", "awaitCreate", "done"}

\* C6: when fixBugs has returned to the code-fix handler, the result's
\* fixedCode is the model's corrected code if the answer has a (non-empty) one
\* and otherwise the code of the request; the snippet the handler stores, and
\* the snippet in its response, have that same value as generatedCode.
C6_FixedCodeDefault ==
    \A r \in DOMAIN reqs :
        FixReturned(reqs[r]) =>
            /\ reqs[r].result.value.fixedCode = ExpectedFixedCode(reqs[r])
            /\ reqs[r].pc \in {"awaitCreate", "done"} =>
                  /\ reqs[r].pending.generatedCode = ExpectedFixedCode(reqs[r])
                  /\ getCodeSnippet(reqs[r].pending.id.s).generatedCode
                        = ExpectedFixedCode(reqs[r])
            /\ reqs[r].pc = "done" =>
                  reqs[r].resp.codeSnippet.generatedCode = ExpectedFixedCode(reqs[r])

\* C6: a code-fix request has succeeded on an answer without fixedCode, and
\* the stored snippet's generatedCode is the request's code
C6_Witness ==
    \E r \in DOMAIN reqs :
        /\ Succeeded(reqs[r], "fix")
        /\ Prop(Parsed(reqs[r].upstream), "fixedCode") = Undefined
        /\ getCodeSnippet(reqs[r].pending.id.s).generatedCode = reqs[r].body.code
        /\ getCodeSnippet(reqs[r].pending.id.s).code = reqs[r].body.code

\* C7, as stated: every successful response of POST /api/tests/generate has
\* statistics.total = statistics.positive + statistics.negative.
C7_TotalIsSum ==
    \A r \in DOMAIN reqs :
        Succeeded(reqs[r], "tests") =>
            reqs[r].resp.statistics.total.n
                = reqs[r].resp.statistics.positive.n + reqs[r].resp.statistics.negative.n

\* The model's value of a field, or the default when it is missing or falsy
GivenOr(req, f, default) == Or(Prop(Parsed(req.upstream), f), default)

\* C7, amended: the three statistics of a successful response are the model's
\* totalTests, positiveTests and negativeTests, each replaced by 0 when missing
\* or falsy; so the total is the sum exactly when the model's numbers are.
C7_StatisticsPassThrough ==
    \A r \in DOMAIN reqs :
        Succeeded(reqs[r], "tests") =>
            /\ reqs[r].resp.statistics.total = GivenOr(reqs[r], "totalTests", Num(0))
            /\ reqs[r].resp.statistics.positive = GivenOr(reqs[r], "positiveTests", Num(0))
            /\ reqs[r].resp.statistics.negative = GivenOr(reqs[r], "negativeTests", Num(0))
            /\ reqs[r].resp.testCase.totalTests = reqs[r].resp.statistics.total

\* C7: a successful response whose total is 3 and whose positive and negative
\* counts are 2 and 2, as the model gave them
C7_Witness ==
    \E r \in DOMAIN reqs :
        /\ Succeeded(reqs[r], "tests")
        /\ reqs[r].resp.statistics
              = [total |-> Num(3), positive |-> Num(2), negative |-> Num(2)]

\* C8, as stated: every successful response of POST /api/code/generate has a
\* codeSnippet.generatedCode that is a non-empty string and a suggestions value
\* that is an array.
C8_NonEmptyCodeAndArray ==
    \A r \in DOMAIN reqs :
        Succeeded(reqs[r], "generate") =>
            /\ reqs[r].resp.codeSnippet.generatedCode.t = "string"
            /\ reqs[r].resp.codeSnippet.generatedCode.s # ""
            /\ reqs[r].resp.suggestions.t = "array"

\* C8, amended: in a successful response codeSnippet.generatedCode is the
\* model's code value when that is truthy and the empty string otherwise, and suggestions
\* is the model's suggestions value when that is truthy and the empty array
\* otherwise; so they are a non-empty string and an array when the model gave
\* a non-empty string and an array or nothing.
C8_GeneratedCodePassThrough ==
    \A r \in DOMAIN reqs :
        Succeeded(reqs[r], "generate") =>
            LET code == Prop(Parsed(reqs[r].upstream), "code")
                suggestions == Prop(Parsed(reqs[r].upstream), "suggestions")
            IN  /\ reqs[r].resp.codeSnippet.generatedCode
                      = (IF Truthy(code) THEN code ELSE Str(""))
                /\ reqs[r].resp.suggestions
                      = (IF Truthy(suggestions) THEN suggestions ELSE Arr(<<>>))
                /\ (code.t = "string" /\ code.s # "")
                      => (reqs[r].resp.codeSnippet.generatedCode.t = "string"
                          /\ reqs[r].resp.codeSnippet.generatedCode.s # "")
                /\ (suggestions.t = "array" \/ ~Truthy(suggestions))
                      => reqs[r].resp.suggestions.t = "array"

\* C8: a successful response on an empty answer: generatedCode is the empty
\* string and suggestions is the empty array
C8_Witness ==
    \E r \in DOMAIN reqs :
        /\ Succeeded(reqs[r], "generate")
        /\ reqs[r].upstream = EmptyContent
        /\ reqs[r].resp.codeSnippet.generatedCode = Str("")
        /\ reqs[r].resp.suggestions = Arr(<<>>)

\* A request whose required input is missing or empty: no file or an empty
\* file that passed the upload filter, or a JSON body whose required field is
\* missing or the empty string
LacksRequired(req) ==
    \/ /\ req.ep = "upload"
       /\ \/ ~req.file.present
          \/ req.file.buffer.length = 0 /\ req.file.mimetype = "application/pdf"
    \/ /\ req.ep \in PostEndpoints
       /\ Prop(req.body, RequiredField(req.ep)) \in {Undefined, Str("")}

\* C9: a request to one of the six POST handlers whose required input (the pdf
\* file, description, code or message) is missing or empty is answered with
\* status 400 and a body {error} as soon as it arrives; the AI service is not
\* invoked for it, and the step that answers it leaves the store unchanged.
C9_MissingFieldRejected ==
    /\ [](\A r \in DOMAIN reqs :
            LacksRequired(reqs[r]) =>
                /\ Answered(reqs[r], 400, 400)
                /\ ~Has(reqs[r].log, "ai")
                /\ ~Has(reqs[r].log, "extract")
                /\ ~Creates(reqs[r].log))
    /\ [][(Arrives /\ LacksRequired(reqs'[1])) => UNCHANGED <<storeVars, issued>>]_vars

\* C9: a chat request with an empty message has been answered 400 while the
\* store holds a record of an earlier request
C9_Witness ==
    /\ \E r \in DOMAIN reqs :
          /\ reqs[r].ep = "chat"
          /\ reqs[r].body = [message |-> Str("")]
          /\ reqs[r].status = 400
          /\ reqs[r].resp = [error |-> "Message is required"]
    /\ Cardinality(issued) = 1

\* The request that takes the step, when the step writes the store
Writer == reqs[1]
WritesStore == storeVars' # storeVars

\* C10, as stated: in every handler, the upload handler included, a request
\* writes a record only after its AI orchestration call has returned
\* successfully.
C10_NoWriteBeforeAI ==
    /\ [](\A r \in DOMAIN reqs : \A i \in 1..Len(reqs[r].log) :
            reqs[r].log[i] \in CreateEntries => After(reqs[r].log, i, "ai_ok"))
    /\ [][WritesStore => (reqs # <<>> /\ Writer.result.ok)]_vars

\* C10, amended: the five JSON handlers write their record only after their
\* AI call has returned successfully, and answer after the write; the upload
\* handler writes its Document after extraction has succeeded and before it
\* starts the AI call, and writes Requirements only after the AI call has
\* returned successfully. No handler writes before validation or after it has
\* answered.
C10_WriteOrder ==
    /\ [](\A r \in DOMAIN reqs : \A i \in 1..Len(reqs[r].log) :
            LET log == reqs[r].log
            IN  /\ log[i] \in CreateEntries =>
                      /\ After(log, i, "validate")
                      /\ ~After(log, i, "respond")
                /\ log[i] \in CreateEntries \ {"create:documents"} =>
                      After(log, i, "ai_ok")
                /\ log[i] = "create:documents" =>
                      /\ reqs[r].ep = "upload"
                      /\ After(log, i, "extract_ok")
                      /\ ~After(log, i, "ai")
                /\ log[i] = "ai" /\ reqs[r].ep = "upload" =>
                      After(log, i, "create:documents")
                /\ log[i] = "respond" /\ reqs[r].status = 200 /\ reqs[r].ep \in PostEndpoints =>
                      After(log, i, "create:" \o KindOf(reqs[r].ep)))
    /\ [][WritesStore =>
            /\ reqs # <<>>
            /\ Writer.pc \in {"afterExtract", "afterAI", "awaitCreateRequirement"}
            /\ Writer.pc = "afterExtract" => (Writer.text.ok /\ ~Writer.result.ok)
            /\ Writer.pc # "afterExtract" => Writer.result.ok
            /\ Creates(reqs'[1].log)]_vars

\* C10: an upload whose AI call failed has been answered 500 and its Document
\* is in the store
C10_Witness ==
    \E r \in DOMAIN reqs :
        /\ reqs[r].ep = "upload"
        /\ reqs[r].status = 500
        /\ Has(reqs[r].log, "ai_fail")
        /\ MapHas(documents, reqs[r].document.id.s)

---------------------------------------------------------------------------
(* The handlers under a fair scheduler: a continuation that can run does   *)
(* run, and a downstream call that is pending settles.                     *)
HandlerStep ==
    \E r \in Requests :
        \/ RespondList(r)
        \/ \E res \in ExtractResults : ExtractDone(r, res)
        \/ AfterExtract(r)
        \/ CallClassify(r)
        \/ AIDone(r)
        \/ AfterAI(r)
        \/ NextRequirement(r)
        \/ Respond(r)

NextLive ==
    \/ \E file \in Files : served < MaxLiveRequests /\ ArriveUpload(file)
    \/ \E ep \in PostEndpoints : \E body \in Bodies(ep) :
          served < MaxLiveRequests /\ ArrivePost(ep, body)
    \/ \E ep \in GetEndpoints : served < MaxLiveRequests /\ ArriveGet(ep)
    \/ \E r \in Requests : RespondList(r)
    \/ \E r \in Requests : \E res \in ExtractResults : ExtractDone(r, res)
    \/ \E r \in Requests : AfterExtract(r)
    \/ \E r \in Requests : CallClassify(r)
    \/ \E r \in Requests : AIDone(r)
    \/ \E r \in Requests : AfterAI(r)
    \/ \E r \in Requests : NextRequirement(r)
    \/ \E r \in Requests : Respond(r)

SpecLive == Init /\ [][NextLive]_vars /\ WF_vars(HandlerStep)

Count(log, entry) == Cardinality({i \in 1..Len(log) : log[i] = entry})
\* The request failed downstream of its validation, and the message it failed with
FailedDownstream(req) == Has(req.log, "extract_fail") \/ Has(req.log, "ai_fail")
FailureMessage(req) == IF Has(req.log, "extract_fail") THEN req.text.error ELSE req.result.error

\* C11: a request that passed validation and then failed in extraction or in
\* the AI call ends with exactly one response, of status 5xx and body
\* {error: <the failure's message>}, and never with a success response; a
\* request has no response before it ends and exactly one when it has ended,
\* an answered request is never answered again, and every request (its
\* downstream calls returning) does end.
C11_OneResponse ==
    /\ [](\A r \in DOMAIN reqs :
            /\ reqs[r].pc = "done" => Count(reqs[r].log, "respond") = 1
            /\ reqs[r].pc # "done" => Count(reqs[r].log, "respond") = 0
            /\ (reqs[r].pc = "done" /\ FailedDownstream(reqs[r])) =>
                  /\ reqs[r].status \in 500..599
                  /\ reqs[r].resp = [error |-> FailureMessage(reqs[r])]
                  /\ FailureMessage(reqs[r]) # "")
    /\ [][(reqs # <<>> /\ reqs[1].pc = "done" /\ ~Arrives) => reqs' = reqs]_vars
    /\ (reqs # <<>>) ~> (reqs # <<>> /\ reqs[1].pc = "done")

\* C11: a code-fix request whose AI call failed has been answered 500 with the
\* failure's message, once
C11_Witness ==
    \E r \in DOMAIN reqs :
        /\ reqs[r].ep = "fix"
        /\ reqs[r].pc = "done"
        /\ Has(reqs[r].log, "ai_fail")
        /\ reqs[r].status = 500
        /\ reqs[r].resp = [error |-> "Bug fixing failed: 429 rate limit exceeded"]
        /\ Count(reqs[r].log, "respond") = 1

Range(seq) == {seq[i] : i \in 1..Len(seq)}
\* Every entry of the map is still there, unchanged, after the step
Kept(m, mNext) == Len(mNext) >= Len(m) /\ \A i \in 1..Len(m) : mNext[i] = m[i]
\* The upload request has had its Document created
HasDocument(req) == req.ep = "upload" /\ req.document # Absent
\* The Requirements createRequirement has returned to the request
CreatedRequirements(req) ==
    Range(req.saved) \cup (IF req.pc = "awaitCreateRequirement" THEN {req.pending} ELSE {})

\* C12: once an upload request has created its Document, the Document and
\* every Requirement the request has created are in the store, whatever
\* happens to the request afterwards; when its classification fails it is
\* answered 5xx and the Document is still stored and is in the list GET
\* /api/documents reads. No step removes or changes a stored Document or
\* Requirement, and an answered GET /api/documents holds every stored Document.
C12_NoRollback ==
    /\ [](\A r \in DOMAIN reqs :
            /\ HasDocument(reqs[r]) =>
                  /\ getDocument(reqs[r].document.id.s) = reqs[r].document
                  /\ reqs[r].document \in Range(ListOf("documents"))
                  /\ \A q \in CreatedRequirements(reqs[r]) :
                        /\ MapGet(requirements, q.id.s) = q
                        /\ q \in Range(getRequirementsByDocumentId(reqs[r].document.id.s))
            /\ (HasDocument(reqs[r]) /\ reqs[r].pc = "done" /\ Has(reqs[r].log, "ai_fail")) =>
                  reqs[r].status \in 500..599
            /\ (reqs[r].ep = "documents" /\ reqs[r].pc = "done") =>
                  Range(MapValues(documents)) \subseteq Range(reqs[r].resp))
    /\ [][Kept(documents, documents') /\ Kept(requirements, requirements')]_vars

\* C12: an upload whose classification failed has been answered 500; its
\* Document is stored, is what GET /api/documents would list, and has no
\* Requirement
C12_Witness ==
    \E r \in DOMAIN reqs :
        /\ HasDocument(reqs[r])
        /\ reqs[r].pc = "done"
        /\ reqs[r].status = 500
        /\ Has(reqs[r].log, "ai_fail")
        /\ reqs[r].document \in Range(ListOf("documents"))
        /\ getRequirementsByDocumentId(reqs[r].document.id.s) = <<>>

\* The default of each field of an operation's result
Defaults(req) ==
    CASE req.ep = "generate" -> [code |-> Str(""), suggestions |-> Arr(<<>>)]
      [] req.ep = "fix" ->
             [fixedCode |-> req.body.code, issues |-> Arr(<<>>), optimizations |-> Arr(<<>>)]
      [] req.ep = "tests" ->
             [testCode |-> Str(""), coverage |-> Num(0), totalTests |-> Num(0),
              positiveTests |-> Num(0), negativeTests |-> Num(0)]
      [] req.ep = "summarize" ->
             [overview |-> Str(""), features |-> Arr(<<>>), methods |-> Arr(<<>>),
              example |-> Str("")]
StructuredOps == {"generate", "fix", "tests", "summarize"}
\* The model's content was empty or a JSON object
ParsedObject(outcome) == outcome.kind \in {"json", "empty"}
\* Every field the answer has is of the type of the field's default
FieldsWellTyped(req, outcome) ==
    \A f \in DOMAIN Defaults(req) :
        Prop(Parsed(outcome), f).t \in {"undefined", Defaults(req)[f].t}
\* The classification answer has no requirements or a list of objects
ClassificationWellTyped(outcome) ==
    LET list == Prop(Parsed(outcome), "requirements")
    IN  \/ list = Undefined
        \/ list.t = "array" /\ \A i \in 1..Len(list.a) : list.a[i].t = "object"

\* C13: when the model's content is empty or a JSON object whose fields, as
\* far as it has them, are of the expected types, each of the five structured
\* operations returns a result: a field the answer lacks has its default (the
\* empty string, the empty list, 0, or the original code for fixedCode), a
\* field the answer gives with a truthy value has that value, and a
\* classification without requirements is the empty list with all counts 0.
C13_MissingFieldsDefaulted ==
    /\ (orch.done /\ orch.req.ep \in StructuredOps /\ ParsedObject(orch.outcome)
            /\ FieldsWellTyped(orch.req, orch.outcome)) =>
          /\ orch.result.ok
          /\ DOMAIN orch.result.value = DOMAIN Defaults(orch.req)
          /\ \A f \in DOMAIN Defaults(orch.req) :
                LET given == Prop(Parsed(orch.outcome), f)
                IN  /\ given = Undefined => orch.result.value[f] = Defaults(orch.req)[f]
                    /\ Truthy(given) => orch.result.value[f] = given
    /\ (orch.done /\ orch.req.ep = "upload" /\ ParsedObject(orch.outcome)
            /\ ClassificationWellTyped(orch.outcome)) =>
          /\ orch.result.ok
          /\ Prop(Parsed(orch.outcome), "requirements") = Undefined =>
                /\ orch.result.value.requirements = Arr(<<>>)
                /\ orch.result.value.statistics = ZeroStatistics
          /\ Prop(Parsed(orch.outcome), "requirements") # Undefined =>
                orch.result.value.requirements = Prop(Parsed(orch.outcome), "requirements")

\* C13: generateTestCases has returned on an answer that has only testCode and
\* positiveTests; the other three fields are 0
C13_Witness ==
    /\ orch.done
    /\ orch.req.ep = "tests"
    /\ orch.outcome.kind = "json"
    /\ DOMAIN orch.outcome.obj = {"testCode", "positiveTests"}
    /\ orch.result.ok
    /\ orch.result.value.positiveTests = Num(2)
    /\ orch.result.value.totalTests = Num(0)
    /\ orch.result.value.coverage = Num(0)
    /\ orch.result.value.negativeTests = Num(0)

\* The field of the answer has a value of another type than the field's default
WrongType(req, outcome, f) ==
    Prop(Parsed(outcome), f).t \notin {"undefined", Defaults(req)[f].t}

\* C14: when the model's content parses and a field has a value of the wrong
\* type, the operation returns a result in which that field has its typed
\* default; a classification whose requirements is not a list returns the
\* empty list.
C14_WrongTypeDefaulted ==
    /\ (orch.done /\ orch.req.ep \in StructuredOps /\ ParsedObject(orch.outcome)) =>
          /\ orch.result.ok
          /\ \A f \in DOMAIN Defaults(orch.req) :
                WrongType(orch.req, orch.outcome, f) =>
                    orch.result.value[f] = Defaults(orch.req)[f]
    /\ (orch.done /\ orch.req.ep = "upload" /\ ParsedObject(orch.outcome)
            /\ Prop(Parsed(orch.outcome), "requirements").t \notin {"undefined", "array"}) =>
          /\ orch.result.ok
          /\ orch.result.value.requirements = Arr(<<>>)

\* C14, as the code has it: the four operations other than classification
\* return a result; a wrong-typed value that is truthy is returned as it is,
\* and one that is falsy (null, 0, '') is replaced by the default. A
\* classification whose requirements is a truthy value other than a list
\* fails.
C14_WrongTypePassedThrough ==
    /\ (orch.done /\ orch.req.ep \in StructuredOps /\ ParsedObject(orch.outcome)) =>
          /\ orch.result.ok
          /\ \A f \in DOMAIN Defaults(orch.req) :
                WrongType(orch.req, orch.outcome, f) =>
                    LET given == Prop(Parsed(orch.outcome), f)
                    IN  orch.result.value[f]
                            = (IF Truthy(given) THEN given ELSE Defaults(orch.req)[f])
    /\ (orch.done /\ orch.req.ep = "upload" /\ ParsedObject(orch.outcome)
            /\ Prop(Parsed(orch.outcome), "requirements").t \notin {"undefined", "array", "null"}) =>
          ~orch.result.ok

\* C14: generateCode has returned the number 5 as code
C14_NumberReturnedAsCode ==
    /\ orch.done
    /\ orch.req.ep = "generate"
    /\ orch.result.ok
    /\ Prop(Parsed(orch.outcome), "code") = Num(5)
    /\ orch.result.value.code = Num(5)

\* The request's orchestration call has settled
Settled(req) == Has(req.log, "ai_ok") \/ Has(req.log, "ai_fail")
\* What each operation puts before the cause's message
FailurePrefix(ep) ==
    CASE ep = "upload" -> "Requirements classification failed: "
      [] ep = "generate" -> "Code generation failed: "
      [] ep = "fix" -> "Bug fixing failed: "
      [] ep = "tests" -> "Test generation failed: "
      [] ep = "summarize" -> "Code summarization failed: "
      [] ep = "chat" -> "Chat response failed: "

\* C15: an orchestration operation fails only when the upstream call failed
\* or the content could not be parsed; its error then carries the cause's
\* message, the handler answers 5xx with that error as message, and a handler
\* other than upload creates no record.
C15_FailsOnlyOnUpstream ==
    \A r \in DOMAIN reqs :
        (Settled(reqs[r]) /\ ~reqs[r].result.ok) =>
            /\ Threw(reqs[r].upstream)
            /\ reqs[r].result.error
                  = FailurePrefix(reqs[r].ep) \o CauseMessage(reqs[r].upstream)
            /\ reqs[r].pc = "done" =>
                  /\ reqs[r].status \in 500..599
                  /\ reqs[r].resp = [error |-> reqs[r].result.error]
            /\ reqs[r].ep # "upload" => ~Creates(reqs[r].log)

\* C15, as the code has it: the operation fails whenever the upstream call
\* failed or the content could not be parsed, with an error that carries the
\* cause's message; the five operations other than classification fail in no
\* other case, and classification fails also when the parsed requirements is
\* a truthy value that is not a list or a list with a null item. Every
\* failure is answered 5xx with the error's message, and a handler other than
\* upload has then created no record.
C15_FailureEchoed ==
    \A r \in DOMAIN reqs :
        Settled(reqs[r]) =>
            /\ Threw(reqs[r].upstream) =>
                  /\ ~reqs[r].result.ok
                  /\ reqs[r].result.error
                        = FailurePrefix(reqs[r].ep) \o CauseMessage(reqs[r].upstream)
            /\ (~reqs[r].result.ok /\ ~Threw(reqs[r].upstream)) =>
                  /\ reqs[r].ep = "upload"
                  /\ LET list == Prop(Parsed(reqs[r].upstream), "requirements")
                     IN  \/ list.t \notin {"undefined", "null", "array"}
                         \/ list.t = "array" /\ \E i \in 1..Len(list.a) : IsNullish(list.a[i])
            /\ (~reqs[r].result.ok /\ reqs[r].pc = "done") =>
                  /\ reqs[r].status = 500
                  /\ reqs[r].resp = [error |-> reqs[r].result.error]
            /\ (~reqs[r].result.ok /\ reqs[r].ep # "upload") => ~Creates(reqs[r].log)

\* C15: an upload has been answered 500 although the upstream call returned
\* content that parsed
C15_FailedOnParsedContent ==
    \E r \in DOMAIN reqs :
        /\ reqs[r].ep = "upload"
        /\ reqs[r].pc = "done"
        /\ reqs[r].status = 500
        /\ reqs[r].upstream = Json([requirements |-> Str("none")])
        /\ reqs[r].resp = [error |-> "Requirements classification failed: "
                                     \o "result.requirements?.forEach is not a function"]

---------------------------------------------------------------------------
(* Properties of the store's records over time (SpecStore)                 *)

\* Every key of the map is still a key, at the same place, after the step
KeysKept(m, mNext) == Len(mNext) >= Len(m) /\ \A i \in 1..Len(m) : mNext[i].k = m[i].k
\* The step is a call of updateCodeSnippet with this identifier
UpdateStepOn(id) == ops' = ops + 1 /\ call'.op = "updateCodeSnippet" /\ call'.key = id
AllMaps == <<users, documents, requirements, codeSnippets, testCases, documentations,
             chatMessages>>
AllKeys == UNION {MapKeys(AllMaps[i]) : i \in 1..Len(AllMaps)}

\* C16: every identifier a create has returned is a key of a map of the
\* store; no step removes a key from a map; no step changes an existing
\* record of a kind other than code snippet; and a step that changes an
\* existing code snippet is a call of updateCodeSnippet with its identifier.
C16_AppendOnly ==
    /\ [](issued \subseteq AllKeys)
    /\ [][/\ Kept(users, users')
          /\ Kept(documents, documents')
          /\ Kept(requirements, requirements')
          /\ Kept(testCases, testCases')
          /\ Kept(documentations, documentations')
          /\ Kept(chatMessages, chatMessages')
          /\ KeysKept(codeSnippets, codeSnippets')
          /\ \A i \in 1..Len(codeSnippets) :
                codeSnippets'[i] # codeSnippets[i] => UpdateStepOn(codeSnippets[i].k)]_vars

\* C16: updateCodeSnippet has just changed a stored snippet, and the record
\* created before it is still stored
C16_Witness ==
    /\ call.op = "updateCodeSnippet"
    /\ call.ret # Absent
    /\ call.ret.type = Str("fixed")
    /\ getCodeSnippet(call.key) = call.ret
    /\ Cardinality(issued) = 2
    /\ issued \subseteq AllKeys

\* Each record's id is its key
IdsAreKeys(m) == \A i \in 1..Len(m) : m[i].v.id = Str(m[i].k)
\* createdAt, and userId where the kind has one, are the same after the step
CreationTime(rec) == IF "createdAt" \in DOMAIN rec THEN rec.createdAt ELSE rec.uploadedAt
StampsKept(m, mNext) ==
    \A i \in 1..Len(m) :
        /\ CreationTime(mNext[i].v) = CreationTime(m[i].v)
        /\ "userId" \in DOMAIN m[i].v => mNext[i].v.userId = m[i].v.userId

\* C17: every stored record's id is the key it is stored under, and no step,
\* updateCodeSnippet with any partial fields included, changes a stored
\* record's createdAt or userId.
C17_IdentityImmutable ==
    /\ [](\A k \in 1..Len(AllMaps) : IdsAreKeys(AllMaps[k]))
    /\ [][/\ StampsKept(users, users')
          /\ StampsKept(documents, documents')
          /\ StampsKept(requirements, requirements')
          /\ StampsKept(codeSnippets, codeSnippets')
          /\ StampsKept(testCases, testCases')
          /\ StampsKept(documentations, documentations')
          /\ StampsKept(chatMessages, chatMessages')]_vars

\* C17, as the code has it: the six kinds without an update keep id,
\* createdAt and userId; a code snippet keeps them except in a call of
\* updateCodeSnippet with its identifier, which stores whatever id, createdAt
\* and userId the partial fields name.
C17_IdentityKeptExceptByUpdate ==
    /\ [](\A k \in {1, 2, 3, 5, 6, 7} : IdsAreKeys(AllMaps[k]))
    /\ [][/\ StampsKept(users, users')
          /\ StampsKept(documents, documents')
          /\ StampsKept(requirements, requirements')
          /\ StampsKept(testCases, testCases')
          /\ StampsKept(documentations, documentations')
          /\ StampsKept(chatMessages, chatMessages')
          /\ \A i \in 1..Len(codeSnippets) :
                (\/ codeSnippets'[i].v.id # codeSnippets[i].v.id
                 \/ codeSnippets'[i].v.createdAt # codeSnippets[i].v.createdAt
                 \/ codeSnippets'[i].v.userId # codeSnippets[i].v.userId)
                => UpdateStepOn(codeSnippets[i].k)]_vars

\* C17: a snippet is stored under the key a create gave it with another id,
\* another createdAt and a null userId, after updateCodeSnippet returned it
C17_IdentityOverwritten ==
    /\ call.op = "updateCodeSnippet"
    /\ call.ret # Absent
    /\ MapHas(codeSnippets, call.key)
    /\ getCodeSnippet(call.key).id = Str("uuid-16")
    /\ getCodeSnippet(call.key).id # Str(call.key)
    /\ getCodeSnippet(call.key).createdAt = Num(7)

---------------------------------------------------------------------------
(* Properties of concurrently served requests (SpecConc)                   *)

Kinds == <<"users", "documents", "requirements", "codeSnippets", "testCases",
           "documentations", "chatMessages">>
JsonEndpoints == {"generate", "fix", "tests", "summarize", "chat"}
\* The records of a kind the create methods have returned to a request
ReturnedTo(req, kind) ==
    CASE kind = "documents" -> IF req.document # Absent THEN <<req.document>> ELSE <<>>
      [] kind = "requirements" ->
             IF req.ep # "upload" THEN <<>>
             ELSE req.saved \o (IF req.pc = "awaitCreateRequirement"
                                THEN <<req.pending>> ELSE <<>>)
      [] OTHER -> IF req.ep \in JsonEndpoints /\ req.pending # Absent
                     /\ KindOf(req.ep) = kind
                  THEN <<req.pending>> ELSE <<>>
\* ... to the first n requests, in the order of their arrival
RECURSIVE ReturnedUpTo(_, _)
ReturnedUpTo(n, kind) ==
    IF n = 0 THEN <<>> ELSE ReturnedUpTo(n - 1, kind) \o ReturnedTo(reqs[n], kind)
ReturnedAll(kind) == ReturnedUpTo(Len(reqs), kind)
IdsOf(recs) == [i \in 1..Len(recs) |-> recs[i].id]
NoDuplicates(seq) == \A i, j \in 1..Len(seq) : i # j => seq[i] # seq[j]
\* The step on which a request calls the kind's create method
RequestCreates(r, kind) ==
    /\ Len(reqs'[r].log) = Len(reqs[r].log) + 1
    /\ reqs'[r].log[Len(reqs'[r].log)] = "create:" \o kind
\* The step is a call of the kind's create method
CreateStep(kind) ==
    \/ \E r \in DOMAIN reqs : RequestCreates(r, kind)
    \/ kind = "users" /\ ops' = ops + 1 /\ call'.op = "createUser"

\* C18: within each kind the identifiers the create methods have returned to
\* the requests, concurrent ones included, are pairwise different and no two
\* entries of the kind's map have the same key; a create adds one entry under
\* an identifier never issued before and leaves every existing entry as it
\* was; and the default user's record stays the one the constructor stored.
C18_UniqueIds ==
    /\ [](\A k \in 1..Len(Kinds) :
            /\ NoDuplicates(IdsOf(ReturnedAll(Kinds[k])))
            /\ Cardinality(MapKeys(AllMaps[k])) = Len(AllMaps[k]))
    /\ [](MapGet(users, DEFAULT_USER_ID) = defaultUser)
    /\ [][\A k \in 1..Len(Kinds) :
            CreateStep(Kinds[k]) =>
                /\ Len(AllMaps'[k]) = Len(AllMaps[k]) + 1
                /\ Kept(AllMaps[k], AllMaps'[k])
                /\ AllMaps'[k][Len(AllMaps'[k])].k \notin issued]_vars
\* Two requests in flight at once have each had a code snippet created, after
\* a user was created next to the default one.
C18_Witness ==
    /\ Len(reqs) >= 2
    /\ reqs[1].pc = "awaitCreate" /\ reqs[2].pc = "awaitCreate"
    /\ reqs[1].ep = "generate" /\ reqs[2].ep = "generate"
    /\ Len(codeSnippets) = 2
    /\ Len(users) = 2

\* The number of calls of the kind's create method the first n requests have made
RECURSIVE CreatesUpTo(_, _)
CreatesUpTo(n, kind) ==
    IF n = 0 THEN 0
    ELSE CreatesUpTo(n - 1, kind) + Count(reqs[n].log, "create:" \o kind)
CreatesAll(kind) == CreatesUpTo(Len(reqs), kind)
\* The stored record is the returned one, but for fields an update has set
SameButUpdated(stored, rec, kind) ==
    /\ stored # Absent
    /\ DOMAIN stored = DOMAIN rec
    /\ \A f \in DOMAIN rec :
          \/ stored[f] = rec[f]
          \/ kind = "codeSnippets" /\ \E u \in ConcUpdates : f \in DOMAIN u /\ stored[f] = u[f]

\* C19: however the requests interleave, each kind's map holds one record for
\* every create call the requests have made and every record a create has
\* returned to a request is stored, changed at most in fields an update has
\* set; an update merges its fields into the record stored at that moment,
\* stores what it returns and touches no other record; and the record the
\* latest update returned stays stored while other requests go on creating.
C19_NothingLost ==
    /\ [](\A k \in 2..Len(Kinds) :
            LET returned == ReturnedAll(Kinds[k])
                made == CreatesAll(Kinds[k])
            IN  /\ Len(AllMaps[k]) = made
                /\ Len(returned) = made
                /\ \A i \in 1..Len(returned) :
                      SameButUpdated(MapGet(AllMaps[k], returned[i].id.s), returned[i],
                                     Kinds[k]))
    /\ [](call.op = "updateCodeSnippet" /\ call.ret # Absent
            => MapGet(codeSnippets, call.key) = call.ret)
    /\ [][\A id \in MapKeys(codeSnippets) :
            UpdateStepOn(id) =>
                /\ \E u \in ConcUpdates :
                      call'.ret = Spread(MapGet(codeSnippets, id), u)
                /\ MapGet(codeSnippets', id) = call'.ret
                /\ Len(codeSnippets') = Len(codeSnippets)
                /\ \A other \in MapKeys(codeSnippets) \ {id} :
                      MapGet(codeSnippets', other) = MapGet(codeSnippets, other)]_vars
\* A code snippet has been updated twice, on different fields, and holds both
\* updates while another request, arrived later, is still in flight and has
\* created its own record.
C19_Witness ==
    /\ Len(reqs) = 2
    /\ reqs[1].ep = "generate" /\ reqs[1].pending # Absent
    /\ ops = 2
    /\ LET stored == MapGet(codeSnippets, reqs[1].pending.id.s)
       IN  /\ stored.generatedCode = Str("fixed")
           /\ stored.description = Str("edited")
    /\ reqs[2].pc = "awaitCreateRequirement"
    /\ Len(requirements) = 2

---------------------------------------------------------------------------
(* Foreign references of the stored records                                *)

\* The record's field f is absent or null, or names a key of the map
Resolves(rec, f, m) ==
    \/ IsNullish(Prop(rec, f))
    \/ Prop(rec, f).t = "string" /\ MapHas(m, Prop(rec, f).s)
AllResolve(owners, f, m) == \A i \in 1..Len(owners) : Resolves(owners[i].v, f, m)
ReferencesResolve ==
    /\ \A k \in 2..Len(AllMaps) : AllResolve(AllMaps[k], "userId", users)
    /\ AllResolve(requirements, "documentId", documents)
    /\ AllResolve(testCases, "codeSnippetId", codeSnippets)
    /\ AllResolve(documentations, "codeSnippetId", codeSnippets)

\* C20, as stated: after any sequence of calls of the store's methods every
\* non-null userId of a stored record names a stored User, every non-null
\* documentId of a Requirement names a stored Document and every non-null
\* codeSnippetId of a TestCase or Documentation names a stored CodeSnippet.
C20_ReferencesResolve == ReferencesResolve
\* The HTTP handlers on their own write only references that resolve: the
\* default user and the Document the same request has just created.
C20_HandlerReferencesResolve == ReferencesResolve
\* A Requirement is stored whose documentId names no stored Document.
C20_DanglingDocumentId == ~AllResolve(requirements, "documentId", documents)

---------------------------------------------------------------------------
(* Properties of the reads by owner (SpecRead)                             *)

\* The place of an identifier in the order in which identifiers are issued
PoolIndex(id) == CHOOSE i \in 1..Len(UUIDPool) : UUIDPool[i] = id
InCreationOrder(m) ==
    \A i, j \in 1..Len(m) : i < j => PoolIndex(m[i].k) < PoolIndex(m[j].k)
\* The entries of the map whose record has this userId
OwnedAt(m, uid) == {i \in 1..Len(m) : Prop(m[i].v, "userId") = Str(uid)}
\* The list holds the records of those entries, each once, in the map's order
IsOwnedOf(list, m, uid) ==
    LET owned == OwnedAt(m, uid)
    IN  /\ Len(list) = Cardinality(owned)
        /\ \A i \in owned : list[Cardinality({p \in owned : p <= i})] = m[i].v
MapOfMethod(method) ==
    CASE method = "getDocumentsByUserId" -> documents
      [] method = "getRequirementsByUserId" -> requirements
      [] method = "getCodeSnippetsByUserId" -> codeSnippets
      [] method = "getTestCasesByUserId" -> testCases
      [] method = "getDocumentationsByUserId" -> documentations
      [] method = "getChatMessagesByUserId" -> chatMessages
MapOfEndpoint(ep) ==
    CASE ep = "documents" -> documents
      [] ep = "code-snippets" -> codeSnippets
      [] ep = "chat-history" -> chatMessages

\* C21: the entries of every map stay in the order in which their records
\* were created, an updateCodeSnippet included; a by-owner read returns the
\* stored records of its kind whose userId is the argument, each once, in
\* that order; and a GET endpoint reads this list for the default user and
\* answers 200 with the list it read.
C21_ListByOwner ==
    /\ [](\A k \in 2..Len(AllMaps) : InCreationOrder(AllMaps[k]))
    /\ [][/\ ops' = ops + 1 /\ call'.op \in ByUserMethods
             => IsOwnedOf(call'.list, MapOfMethod(call'.op), call'.key)
          /\ ops' = ops + 1 /\ call'.op = "updateCodeSnippet"
             => KeysKept(codeSnippets, codeSnippets')
                /\ Len(codeSnippets') = Len(codeSnippets)
          /\ Arrives /\ reqs'[1].ep \in GetEndpoints
             => IsOwnedOf(reqs'[1].saved, MapOfEndpoint(reqs'[1].ep), DEFAULT_USER_ID)
          /\ \A r \in DOMAIN reqs :
                reqs[r].pc = "awaitList" /\ reqs'[r].pc = "done"
                => reqs'[r].status = 200 /\ reqs'[r].resp = reqs[r].saved]_vars
\* GET /api/code-snippets has answered with two snippets of the default
\* user, the first of which was updated after the second was created.
C21_Witness ==
    /\ reqs # <<>>
    /\ reqs[1].ep = "code-snippets" /\ reqs[1].pc = "done"
    /\ Len(reqs[1].resp) = 2
    /\ reqs[1].resp[1].type = Str("fixed")
    /\ reqs[1].resp[2].type = Str("generated")
    /\ Len(codeSnippets) = 2

---------------------------------------------------------------------------
(* Properties of what the store's methods write (SpecStore)                *)

\* rec is old with the fields of updates set to the values updates gives
MergedFrom(rec, old, updates) ==
    /\ DOMAIN rec = DOMAIN old \cup DOMAIN updates
    /\ \A f \in DOMAIN updates : rec[f] = updates[f]
    /\ \A f \in DOMAIN old \ DOMAIN updates : rec[f] = old[f]
OtherMapsKept ==
    <<users, documents, requirements, testCases, documentations, chatMessages>>' =
    <<users, documents, requirements, testCases, documentations, chatMessages>>

\* C22: a call of updateCodeSnippet on a stored snippet's identifier returns
\* the record it stores under that identifier; in it every field of the
\* partial input has the input's value and every other field the value it
\* had; every other snippet and every record of another kind is unchanged.
C22_UpdateMerges ==
    [][\A id \in MapKeys(codeSnippets) :
          UpdateStepOn(id) =>
              /\ call'.ret # Absent
              /\ MapGet(codeSnippets', id) = call'.ret
              /\ \E u \in SnippetUpdates : MergedFrom(call'.ret, MapGet(codeSnippets, id), u)
              /\ MapKeys(codeSnippets') = MapKeys(codeSnippets)
              /\ \A other \in MapKeys(codeSnippets) \ {id} :
                    MapGet(codeSnippets', other) = MapGet(codeSnippets, other)
              /\ OtherMapsKept]_vars
\* The second of two stored snippets has been updated: it has the update's
\* generatedCode and type and its own title, and the first is as created.
C22_Witness ==
    /\ call.op = "updateCodeSnippet"
    /\ Len(codeSnippets) = 2
    /\ call.key = codeSnippets[2].k
    /\ codeSnippets[2].v = call.ret
    /\ call.ret.generatedCode = Str("fixed") /\ call.ret.type = Str("fixed")
    /\ call.ret.title = Str("Original")
    /\ codeSnippets[1].v.type = Str("generated")

\* The create methods, in the order of the maps they write
CreateOrder ==
    <<"createUser", "createDocument", "createRequirement", "createCodeSnippet",
      "createTestCase", "createDocumentation", "createChatMessage">>
CreateMethods == Range(CreateOrder)
MapIndexOfCreate(method) == CHOOSE k \in 1..Len(CreateOrder) : CreateOrder[k] = method
InputsOfCreate(method) ==
    CASE method = "createUser" -> UserInputs
      [] method = "createDocument" -> DocumentInputs
      [] method = "createRequirement" -> RequirementInputs
      [] method = "createCodeSnippet" -> CodeSnippetInputs
      [] method = "createTestCase" -> TestCaseInputs
      [] method = "createDocumentation" -> DocumentationInputs
      [] method = "createChatMessage" -> ChatMessageInputs
\* The optional fields of the kind a create method makes
OptionalFields(method) ==
    CASE method = "createUser" -> {}
      [] method = "createDocument" -> {"userId"}
      [] method = "createRequirement" -> {"userId", "documentId", "userStory"}
      [] method = "createCodeSnippet" -> {"userId", "description", "generatedCode"}
      [] method = "createTestCase" -> {"userId", "codeSnippetId", "coverage", "totalTests"}
      [] method = "createDocumentation" ->
             {"userId", "codeSnippetId", "overview", "features", "methods", "example"}
      [] method = "createChatMessage" -> {"userId"}
\* rec is what a create is to make of the input: given fields as given,
\* absent optional fields null
FilledFrom(rec, ins, optional) ==
    /\ \A f \in DOMAIN ins : ins[f] # Undefined => rec[f] = ins[f]
    /\ \A f \in optional : Prop(ins, f) = Undefined => rec[f] = Null

\* C23: a call of a create method returns the record it stores; the record's
\* id is an identifier not issued before and is the key it is stored under,
\* its creation time is the time of the call, each optional field the input
\* lacks or gives as undefined is null and each field the input gives has the
\* given value.
C23_CreateFillsDefaults ==
    [][issued' # issued /\ call'.op \in CreateMethods =>
          /\ call'.key \notin issued
          /\ call'.ret.id = Str(call'.key)
          /\ CreationTime(call'.ret) = Num(now)
          /\ MapGet(AllMaps'[MapIndexOfCreate(call'.op)], call'.key) = call'.ret
          /\ \E ins \in InputsOfCreate(call'.op) :
                FilledFrom(call'.ret, ins, OptionalFields(call'.op))]_vars
\* createRequirement has returned a record made from an input without
\* documentId and userId and with userStory undefined: all three are null
\* and phase and confidence are the input's.
C23_Witness ==
    /\ call.op = "createRequirement"
    /\ call.ret.documentId = Null /\ call.ret.userId = Null
    /\ call.ret.userStory = Null
    /\ call.ret.phase = Str("Testing") /\ call.ret.confidence = Num(0)
    /\ MapGet(requirements, call.key) = call.ret

---------------------------------------------------------------------------
(* Properties of the upload handler's records and response (Spec)          *)

Enumerated(phase) == \E l \in PhaseLabels : phase = Str(l)

\* C24, as stated: every stored Requirement, and every Requirement in a
\* successful upload response, has one of the five phase labels as its
\* phase, whatever the model returned.
C24_PhaseEnumerated ==
    /\ \A i \in 1..Len(requirements) : Enumerated(requirements[i].v.phase)
    /\ \A r \in DOMAIN reqs :
          Succeeded(reqs[r], "upload") =>
              \A i \in 1..Len(reqs[r].resp.requirements) :
                  Enumerated(reqs[r].resp.requirements[i].phase)
\* An upload has answered 200 with a Requirement, also stored, whose phase is
\* the label "Maintenance" the model returned.
C24_UnknownPhaseStored ==
    /\ reqs # <<>>
    /\ Succeeded(reqs[1], "upload")
    /\ Len(reqs[1].resp.requirements) = 1
    /\ reqs[1].resp.requirements[1].phase = Str("Maintenance")
    /\ \E i \in 1..Len(requirements) : requirements[i].v = reqs[1].resp.requirements[1]

KnownTexts ==
    {"", "The system shall log in users.", "<a text of 600 characters>",
     "<the first 500 characters of a text of 600 characters>"}
\* p holds the first characters of t
IsPrefix(p, t) ==
    \/ p = t
    \/ p = ""
    \/ /\ p = "<the first 500 characters of a text of 600 characters>"
       /\ t = "<a text of 600 characters>"
Min(a, b) == IF a <= b THEN a ELSE b
\* p is the first 500 characters of t, or all of t if t has fewer
First500(p, t) == IsPrefix(p, t) /\ TextLength(p) = Min(500, TextLength(t))

\* C25: in a successful upload response extractedText is the first 500
\* characters of the extracted text followed by "..."; the content of the
\* Document in the response and in the store, and the text put into the
\* classification prompt, are the whole extracted text.
C25_PreviewAndFullText ==
    \A r \in DOMAIN reqs :
        Succeeded(reqs[r], "upload") =>
            LET text == reqs[r].text.value.text
            IN  /\ \E p \in KnownTexts :
                      /\ First500(p, text.s)
                      /\ reqs[r].resp.extractedText = Str(p \o "...")
                /\ reqs[r].resp.document.content = text
                /\ getDocument(reqs[r].resp.document.id.s).content = text
                /\ reqs[r].prompt.input = text.s
\* An upload of a text of 600 characters has answered 200: the preview holds
\* its first 500 characters and the stored content all 600.
C25_Witness ==
    /\ reqs # <<>>
    /\ Succeeded(reqs[1], "upload")
    /\ TextLength(reqs[1].text.value.text.s) = 600
    /\ reqs[1].resp.extractedText =
           Str("<the first 500 characters of a text of 600 characters>...")
    /\ TextLength(getDocument(reqs[1].resp.document.id.s).content.s) = 600

---------------------------------------------------------------------------
(* Properties of concurrently served uploads (SpecConc)                    *)

\* The Requirement is made of the classification item
MadeOf(requirement, item) ==
    /\ requirement.text = Field(item, 1)
    /\ requirement.phase = Field(item, 2)
    /\ requirement.confidence = Field(item, 3)
    /\ requirement.userStory = OrNull([userStory |-> Field(item, 4)], "userStory")

\* C26: however uploads interleave, every Requirement a request has created
\* has the id of that request's Document as its documentId; and in a
\* successful response the requirements are made of the request's
\* classification items, one each and in their order, and are exactly the
\* stored Requirements with the Document's id, in the order stored.
C26_UploadsKeepApart ==
    \A r \in DOMAIN reqs :
        reqs[r].ep = "upload" =>
            /\ \A i \in 1..Len(ReturnedTo(reqs[r], "requirements")) :
                  /\ HasDocument(reqs[r])
                  /\ ReturnedTo(reqs[r], "requirements")[i].documentId = reqs[r].document.id
            /\ Succeeded(reqs[r], "upload") =>
                  LET returned == reqs[r].resp.requirements
                      items == Items(reqs[r])
                  IN  /\ Len(returned) = Len(items)
                      /\ \A i \in 1..Len(items) : MadeOf(returned[i], items[i])
                      /\ reqs[r].resp.document = reqs[r].document
                      /\ getRequirementsByDocumentId(reqs[r].document.id.s) = returned
\* Two uploads have both answered 200 with two Requirements each, created
\* alternately.
C26_Witness ==
    /\ Len(reqs) >= 2
    /\ Succeeded(reqs[1], "upload") /\ Succeeded(reqs[2], "upload")
    /\ Len(reqs[1].resp.requirements) = 2 /\ Len(reqs[2].resp.requirements) = 2
    /\ Len(requirements) = 4
    /\ requirements[1].v.documentId = reqs[1].document.id
    /\ requirements[2].v.documentId = reqs[2].document.id
    /\ requirements[3].v.documentId = reqs[1].document.id

---------------------------------------------------------------------------
(* Properties of the JSON handlers' records (Spec)                         *)

\* The field of a JSON handler's response that holds the record
RecordField(ep) ==
    CASE ep \in {"generate", "fix"} -> "codeSnippet"
      [] ep = "tests" -> "testCase"
      [] ep = "summarize" -> "documentation"
      [] ep = "chat" -> "chatMessage"
MapOfKind(kind) == AllMaps[CHOOSE k \in 1..Len(Kinds) : Kinds[k] = kind]
CreateCount(log) == Cardinality({i \in 1..Len(log) : log[i] \in CreateEntries})
TotalRecords == Len(documents) + Len(requirements) + Len(codeSnippets) + Len(testCases)
                + Len(documentations) + Len(chatMessages)

\* C27: a request to one of the five JSON POST endpoints that has been
\* answered 200 has made one create call, of its endpoint's kind, and the
\* record in its response is the record stored under that record's id (for
\* the chat, with the response text of the response); one answered with an
\* error has made no create call; and a step of such a request that changes
\* the store adds exactly one record.
C27_OneRecordPerSuccess ==
    /\ [](\A r \in DOMAIN reqs :
            (reqs[r].ep \in PostEndpoints /\ reqs[r].pc = "done") =>
                IF reqs[r].status = 200
                THEN LET rec == reqs[r].resp[RecordField(reqs[r].ep)]
                     IN  /\ CreateCount(reqs[r].log) = 1
                         /\ Has(reqs[r].log, "create:" \o KindOf(reqs[r].ep))
                         /\ MapGet(MapOfKind(KindOf(reqs[r].ep)), rec.id.s) = rec
                         /\ reqs[r].ep = "chat" => rec.response = reqs[r].resp.response
                ELSE /\ CreateCount(reqs[r].log) = 0
                     /\ DOMAIN reqs[r].resp = {"error"})
    /\ [][\A r \in DOMAIN reqs :
            (reqs[r].ep \in PostEndpoints /\ ~Arrives) =>
                /\ TotalRecords' - TotalRecords = CreateCount(reqs'[r].log) - CreateCount(reqs[r].log)
                /\ TotalRecords' - TotalRecords \in {0, 1}
                /\ users' = users]_vars
\* The chat endpoint has answered 200 with a stored message whose response
\* is the text of the response.
C27_Witness ==
    /\ reqs # <<>>
    /\ Succeeded(reqs[1], "chat")
    /\ reqs[1].resp.response = reqs[1].resp.chatMessage.response
    /\ getChatMessagesByUserId(DEFAULT_USER_ID) = <<reqs[1].resp.chatMessage>>

\* The option a handler both hands to its orchestration operation and records
OptionOf(ep) ==
    CASE ep \in {"generate", "fix"} -> "language"
      [] ep = "tests" -> "framework"
      [] ep = "summarize" -> "style"
TitleWord(ep) == IF ep = "generate" THEN "Generated " ELSE "Fixed "
\* The request has had its record created
HasRecord(req) == req.ep \in {"generate", "fix", "tests", "summarize"} /\ req.pending # Absent

\* C28, as stated: whenever a handler has created its record, the language,
\* framework or style of the record is the one put into the prompt, and a
\* code snippet's title names that same language.
C28_OptionSameInPromptAndRecord ==
    \A r \in DOMAIN reqs :
        HasRecord(reqs[r]) =>
            LET req == reqs[r]
                used == req.prompt[OptionOf(req.ep)]
            IN  /\ ToStr(req.pending[OptionOf(req.ep)]) = used
                /\ req.ep \in {"generate", "fix"} =>
                      req.pending.title = Str(TitleWord(req.ep) \o used \o " Code")
\* When the option is a non-empty string the record, the title and the
\* prompt agree.
C28_GivenOptionAgrees ==
    \A r \in DOMAIN reqs :
        (HasRecord(reqs[r]) /\ Truthy(Prop(reqs[r].body, OptionOf(reqs[r].ep)))) =>
            LET req == reqs[r]
                used == req.prompt[OptionOf(req.ep)]
            IN  /\ ToStr(req.pending[OptionOf(req.ep)]) = used
                /\ req.ep \in {"generate", "fix"} =>
                      req.pending.title = Str(TitleWord(req.ep) \o used \o " Code")
\* A generate request with language null: the prompt asks for "null" code,
\* the record's language is "python" and its title "Generated null Code".
C28_NullLanguage ==
    /\ reqs # <<>>
    /\ HasRecord(reqs[1]) /\ reqs[1].ep = "generate"
    /\ Prop(reqs[1].body, "language") = Null
    /\ reqs[1].prompt.language = "null"
    /\ reqs[1].pending.language = Str("python")
    /\ reqs[1].pending.title = Str("Generated null Code")
\* A generate request without language: the prompt and the record's language
\* are "python" and the title is "Generated undefined Code".
C28_OmittedLanguage ==
    /\ reqs # <<>>
    /\ HasRecord(reqs[1]) /\ reqs[1].ep = "generate"
    /\ "language" \notin DOMAIN reqs[1].body
    /\ reqs[1].prompt.language = "python"
    /\ reqs[1].pending.language = Str("python")
    /\ reqs[1].pending.title = Str("Generated undefined Code")

---------------------------------------------------------------------------
(* The FloatingChatbot component (client/src/components/FloatingChatbot.tsx) *)
(* against the chat endpoints: the user opens and closes the panel and      *)
(* sends messages, the server handles POST /api/chat and GET                *)
(* /api/chat-history, and the responses arrive in any order.                *)
ChatTexts == {"Explain SDLC phases", "hello"}
ChatReply == "An SDLC has phases"
otherThanChatbot == <<users, documents, requirements, codeSnippets, testCases,
                      documentations, issued, now, call, ops, reqs, served, orch, uploader>>

\* chatHistory.map(msg => [{message: msg.message, isBot: false},
\*                         {message: msg.response, isBot: true}]).flat()
HistoryMessages(data) ==
    [i \in 1..2 * Len(data) |->
        IF i % 2 = 1
        THEN [message |-> data[(i + 1) \div 2].message, isBot |-> FALSE]
        ELSE [message |-> data[i \div 2].response, isBot |-> TRUE]]

\* useEffect(..., [chatHistory]): a non-empty history replaces the whole list
AfterHistoryEffect(messages, chatHistory) ==
    IF chatHistory.t = "array" /\ Len(chatHistory.a) > 0
    THEN <<Greeting>> \o HistoryMessages(chatHistory.a)
    ELSE messages

\* A fetch of the chat-history query starts (any fetch in flight is cancelled).
Refetching == [at |-> "sent", data |-> <<>>]

\* The toggle button and the close button: setIsOpen. The query is enabled
\* while the panel is open, and fetches when it has no data or is stale.
ToggleChat ==
    /\ LET opening == ~chatbot.isOpen
           fetches == /\ opening
                      /\ chatbot.get.at = "idle"
                      /\ (chatbot.chatHistory = Undefined \/ chatbot.stale)
       IN  chatbot' = [chatbot EXCEPT !.isOpen = opening,
                                      !.get = IF fetches THEN Refetching ELSE @,
                                      !.stale = IF fetches THEN FALSE ELSE @]
    /\ UNCHANGED <<chatMessages, otherThanChatbot>>

\* handleSendMessage and handleQuickAction return early while a request is pending
CanSend == chatbot.isOpen /\ ~chatbot.isPending

\* handleSendMessage (text typed and trimmed) and handleQuickAction: the user
\* message is appended and sendMessageMutation.mutate posts it.
SendMessage(text) ==
    /\ CanSend
    /\ chatbot.sends < MaxSends
    /\ chatbot' = [chatbot EXCEPT
            !.messages = Append(@, [message |-> Str(text), isBot |-> FALSE]),
            !.isPending = TRUE,
            !.posts = Append(@, [at |-> "sent", message |-> Str(text),
                                 response |-> Undefined]),
            !.sends = @ + 1]
    /\ UNCHANGED <<chatMessages, otherThanChatbot>>

\* POST /api/chat is handled: chatResponse answers and createChatMessage stores
\* the exchange, or chatResponse throws and the handler answers 500.
ChatServed(i, ok) ==
    /\ i \in 1..Len(chatbot.posts)
    /\ chatbot.posts[i].at = "sent"
    /\ IF ok
       THEN LET id == randomUUID
                record == NewChatMessage([userId |-> Str(DEFAULT_USER_ID),
                                          message |-> chatbot.posts[i].message,
                                          response |-> Str(ChatReply)], id, now)
            IN  /\ chatMessages' = MapSet(chatMessages, id, record)
                /\ issued' = issued \cup {id}
                /\ chatbot' = [chatbot EXCEPT !.posts[i].at = "answered",
                                              !.posts[i].response = Str(ChatReply)]
       ELSE /\ chatbot' = [chatbot EXCEPT !.posts[i].at = "failed"]
            /\ UNCHANGED <<chatMessages, issued>>
    /\ UNCHANGED <<users, documents, requirements, codeSnippets, testCases,
                   documentations, now, call, ops, reqs, served, orch, uploader>>

Without(seq, i) == SubSeq(seq, 1, i - 1) \o SubSeq(seq, i + 1, Len(seq))

\* The response to the chat request arrives. onSuccess appends the reply and
\* invalidates the chat-history query, which refetches while the panel is open;
\* onError appends the apology.
ChatSettles(i) ==
    /\ i \in 1..Len(chatbot.posts)
    /\ chatbot.posts[i].at \in {"answered", "failed"}
    /\ LET post == chatbot.posts[i]
           rest == Without(chatbot.posts, i)
       IN  IF post.at = "answered"
           THEN chatbot' = [chatbot EXCEPT
                    !.messages = Append(@, [message |-> post.response, isBot |-> TRUE]),
                    !.isPending = FALSE,
                    !.posts = rest,
                    !.get = IF chatbot.isOpen THEN Refetching ELSE @,
                    !.stale = ~chatbot.isOpen]
           ELSE chatbot' = [chatbot EXCEPT
                    !.messages = Append(@, Apology),
                    !.isPending = FALSE,
                    !.posts = rest]
    /\ UNCHANGED <<chatMessages, otherThanChatbot>>

\* GET /api/chat-history is handled: the list is read from the store.
HistoryServed ==
    /\ chatbot.get.at = "sent"
    /\ chatbot' = [chatbot EXCEPT
            !.get = [at |-> "served", data |-> getChatMessagesByUserId(DEFAULT_USER_ID)]]
    /\ UNCHANGED <<chatMessages, otherThanChatbot>>

\* The chat history arrives: the query's data becomes the list, and when the
\* data has changed the effect on [chatHistory] runs.
HistoryArrives ==
    /\ chatbot.get.at = "served"
    /\ LET data == Arr(chatbot.get.data)
       IN  chatbot' = [chatbot EXCEPT
                !.chatHistory = data,
                !.messages = IF data # chatbot.chatHistory
                             THEN AfterHistoryEffect(@, data) ELSE @,
                !.get = [at |-> "idle", data |-> <<>>]]
    /\ UNCHANGED <<chatMessages, otherThanChatbot>>

NextChat ==
    \/ ToggleChat
    \/ \E text \in ChatTexts : SendMessage(text)
    \/ \E i \in 1..MaxSends, ok \in BOOLEAN : ChatServed(i, ok)
    \/ \E i \in 1..MaxSends : ChatSettles(i)
    \/ HistoryServed
    \/ HistoryArrives

SpecChat == InitStore /\ [][NextChat]_vars

---------------------------------------------------------------------------
(* Properties of the chatbot client (SpecChat)                             *)
Occurrences(seq, m) == Cardinality({i \in 1..Len(seq) : seq[i] = m})
\* the messages shown after the greeting
Displayed == {chatbot.messages[i] : i \in 2..Len(chatbot.messages)}
ReloadArrives == chatbot.get.at = "served" /\ chatbot'.get.at = "idle"
RequestSettles == Len(chatbot'.posts) < Len(chatbot.posts)

\* C29: in the chatbot client at most one chat request is in flight at any
\* time; when a request settles exactly one bot message (the reply or the
\* apology) is appended after what is shown; and a chat-history reload,
\* whenever it arrives, leaves every user message and reply that is already
\* displayed in the list, as many times as it was there.
C29_ChatDisplayKept ==
    /\ [](Len(chatbot.posts) <= 1)
    /\ [][RequestSettles =>
            /\ Len(chatbot'.messages) = Len(chatbot.messages) + 1
            /\ SubSeq(chatbot'.messages, 1, Len(chatbot.messages)) = chatbot.messages
            /\ chatbot'.messages[Len(chatbot'.messages)].isBot]_vars
    /\ [][ReloadArrives =>
            \A m \in Displayed :
                Occurrences(chatbot'.messages, m) = Occurrences(chatbot.messages, m)]_vars

\* C29: the part that holds: at most one chat request is in flight, it is in
\* flight exactly while isPending is set, and its settling appends exactly one
\* bot message after what is shown.
C29_OneRequestOneAnswer ==
    /\ [](Len(chatbot.posts) <= 1)
    /\ [](chatbot.isPending <=> chatbot.posts # <<>>)
    /\ [][RequestSettles =>
            /\ Len(chatbot'.messages) = Len(chatbot.messages) + 1
            /\ SubSeq(chatbot'.messages, 1, Len(chatbot.messages)) = chatbot.messages
            /\ chatbot'.messages[Len(chatbot'.messages)].isBot]_vars

\* C29: a request is pending and the user message it carries is no longer shown:
\* a chat history read before the message was stored has replaced the list
C29_PendingMessageRemoved ==
    /\ chatbot.posts # <<>>
    /\ \A i \in 1..Len(chatbot.messages) :
          chatbot.messages[i] # [message |-> chatbot.posts[1].message, isBot |-> FALSE]

\* C29: an exchange is stored and shown while the apology that was shown for an
\* earlier failed message is gone
C29_ApologyRemoved ==
    /\ chatbot.sends = 2
    /\ chatbot.posts = <<>>
    /\ Len(chatMessages) = 1
    /\ chatbot.chatHistory = Arr(getChatMessagesByUserId(DEFAULT_USER_ID))
    /\ Len(chatbot.messages) = 3
    /\ Apology \notin Displayed

---------------------------------------------------------------------------
(* The RequirementsModule component: uploadMutation's callbacks and the    *)
(* 200 ms interval each upload starts, in any order.                       *)
otherThanUploader == <<users, documents, requirements, codeSnippets, testCases,
                       documentations, chatMessages, issued, now, call, ops, reqs,
                       served, orch, chatbot>>

\* handleFileUpload passes a PDF of at most 10 MiB to uploadMutation.mutate;
\* onMutate resets the progress and starts an interval.
StartUpload ==
    /\ Len(uploader.uploads) < MaxUploads
    /\ uploader' = [uploader EXCEPT !.uploadProgress = 0,
                                    !.uploads = Append(@, "pending"),
                                    !.timers = Append(@, TRUE)]
    /\ UNCHANGED otherThanUploader

\* prev => prev >= 90 ? prev : prev + 10
ProgressStep(prev) == IF prev >= 90 THEN prev ELSE prev + 10

\* The interval of upload i fires: at 90 or more it clears itself and leaves the
\* progress, below 90 it adds 10.
TimerTick(i) ==
    /\ i \in 1..Len(uploader.timers)
    /\ uploader.timers[i]
    /\ uploader' = [uploader EXCEPT
            !.uploadProgress = ProgressStep(@),
            !.timers[i] = uploader.uploadProgress < 90]
    /\ UNCHANGED otherThanUploader

\* onSuccess: setUploadProgress(100)
UploadSucceeds(i) ==
    /\ i \in 1..Len(uploader.uploads)
    /\ uploader.uploads[i] = "pending"
    /\ uploader' = [uploader EXCEPT !.uploadProgress = 100, !.uploads[i] = "success"]
    /\ UNCHANGED otherThanUploader

\* onError: setUploadProgress(0)
UploadFails(i) ==
    /\ i \in 1..Len(uploader.uploads)
    /\ uploader.uploads[i] = "pending"
    /\ uploader' = [uploader EXCEPT !.uploadProgress = 0, !.uploads[i] = "error"]
    /\ UNCHANGED otherThanUploader

NextUpload ==
    \/ StartUpload
    \/ \E i \in 1..MaxUploads : TimerTick(i)
    \/ \E i \in 1..MaxUploads : UploadSucceeds(i)
    \/ \E i \in 1..MaxUploads : UploadFails(i)

SpecUpload == InitStore /\ [][NextUpload]_vars

---------------------------------------------------------------------------
(* Properties of the requirements client (SpecUpload)                      *)
NonePending ==
    /\ uploader.uploads # <<>>
    /\ \A i \in 1..Len(uploader.uploads) : uploader.uploads[i] # "pending"
SettlesAs(outcome) ==
    \E i \in 1..Len(uploader.uploads) :
        uploader.uploads[i] = "pending" /\ uploader'.uploads[i] = outcome
OnlyTicks == uploader'.uploads = uploader.uploads

\* C30: in the requirements client uploadProgress always lies in 0..100; a
\* success sets it to 100 and a failure to 0; and once every upload started has
\* settled the progress stays where the last callback put it, whatever the
\* 200 ms timers do, until the next upload starts.
C30_ProgressKeptOnceSettled ==
    /\ [](uploader.uploadProgress \in 0..100)
    /\ [][SettlesAs("success") => uploader'.uploadProgress = 100]_vars
    /\ [][SettlesAs("error") => uploader'.uploadProgress = 0]_vars
    /\ [][(OnlyTicks /\ NonePending) =>
            uploader'.uploadProgress = uploader.uploadProgress]_vars

\* C30: the part that holds: uploadProgress is a multiple of 10 in 0..100, a
\* success sets it to 100 and a failure to 0, and at 100 no timer moves it.
C30_RangeAndSuccessKept ==
    /\ [](uploader.uploadProgress \in {10 * k : k \in 0..10})
    /\ [][SettlesAs("success") => uploader'.uploadProgress = 100]_vars
    /\ [][SettlesAs("error") => uploader'.uploadProgress = 0]_vars
    /\ [][(OnlyTicks /\ uploader.uploadProgress = 100) =>
            uploader'.uploadProgress = 100]_vars

\* C30: the only upload has failed and its timer has since taken the progress
\* from 0 up to 90 before clearing itself
C30_ClimbsAfterFailure ==
    /\ uploader.uploads = <<"error">>
    /\ uploader.uploadProgress = 90
    /\ uploader.timers = <<FALSE>>

====
